---- MODULE Spec2Model ----
(***************************************************************************)
(* A model of the SAT solver of SofoklisTsi/SAT_SOLVER: the CNF state      *)
(* object (SATProblem, TWLSATProblem, TrueTWLSATProblem), the branching    *)
(* heuristics, and the DPLL and CDCL engines.                              *)
(*                                                                         *)
(* Conventions.  A literal is a nonzero integer, a clause a sequence of    *)
(* literals, a formula a sequence of clauses.  Python's 0-based clause     *)
(* index i is the index i+1 here; the antecedent None of a decision is 0.  *)
(* The Python dict `assignments` is a function on the variables with       *)
(* value 0 for "no key", 1 for True and -1 for False.  A Python exception  *)
(* raised inside a State method is recorded in the field `err` of the      *)
(* State, and by the engines as the result "error".                        *)
(***************************************************************************)
EXTENDS Integers, Sequences, FiniteSets, TLC

(***************************************************************************)
(* Bounds of the model.                                                    *)
(***************************************************************************)
NumVars == 3
MaxClauseLen == 3
MaxStateClauses == 2
MaxTwlClauses == 1

Lits == {l \in (0 - NumVars)..NumVars : l # 0}
Kinds == {"plain", "twl", "true_twl"}

Abs(l) == IF l < 0 THEN 0 - l ELSE l
Sign(l) == IF l > 0 THEN 1 ELSE -1

Range(s) == {s[i] : i \in DOMAIN s}
InSeq(s, x) == \E i \in DOMAIN s : s[i] = x
MinOf(S) == CHOOSE x \in S : \A y \in S : x <= y
MaxOf(S) == CHOOSE x \in S : \A y \in S : x >= y

(* list.remove(x): drops the first occurrence of x (the callers record the *)
(* ValueError of an absent x).                                             *)
RemoveFirst(s, x) ==
  IF ~InSeq(s, x) THEN s
  ELSE LET k == MinOf({i \in DOMAIN s : s[i] = x})
       IN  [i \in 1..(Len(s) - 1) |-> IF i < k THEN s[i] ELSE s[i + 1]]

(* A set kept as the ascending sequence of its elements. *)
RECURSIVE SortedSeq(_)
SortedSeq(S) == IF S = {} THEN << >> ELSE <<MinOf(S)>> \o SortedSeq(S \ {MinOf(S)})

(***************************************************************************)
(* The input: clauses that passed ClausesModel's validation.  The model    *)
(* draws clauses whose literals are over pairwise distinct variables.      *)
(***************************************************************************)
IsClause(c) ==
  /\ Len(c) >= 1
  /\ \A i, j \in DOMAIN c : i # j => Abs(c[i]) # Abs(c[j])

ClausesOfLen(n) == {c \in [1..n -> Lits] : IsClause(c)}
AllClauses == UNION {ClausesOfLen(n) : n \in 1..MaxClauseLen}
FormulasOfLen(n) == [1..n -> AllClauses]

(* The variables of a formula (ClausesModel.validate_num_vars counts them) *)
(* and the literals over them: the keys the dicts of the State can hold.   *)
VarsOf(cnf) == UNION {{Abs(cnf[i][j]) : j \in DOMAIN cnf[i]} : i \in DOMAIN cnf}
LitsOver(V) == V \cup {0 - v : v \in V}

(***************************************************************************)
(* Definitions of the bookkeeping, computed from scratch.                  *)
(***************************************************************************)
LitTrue(a, l) == a[Abs(l)] = Sign(l)
LitFalse(a, l) == a[Abs(l)] = 0 - Sign(l)
LitUnassigned(a, l) == a[Abs(l)] = 0
ClauseTrue(a, c) == \E i \in DOMAIN c : LitTrue(a, c[i])
CountTrue(a, c) == Cardinality({i \in DOMAIN c : LitTrue(a, c[i])})
CountUnassigned(a, c) == Cardinality({i \in DOMAIN c : LitUnassigned(a, c[i])})

(***************************************************************************)
(* The State.  `contradicted` is a sequence without repetition: an         *)
(* OrderedSet in insertion order under TWL, and a plain set (kept          *)
(* ascending, its order never read) for the other two kinds.               *)
(***************************************************************************)
ContrAdd(p, c) ==
  IF InSeq(p.contradicted, c) THEN p.contradicted
  ELSE IF p.kind = "twl" THEN Append(p.contradicted, c)
  ELSE SortedSeq(Range(p.contradicted) \cup {c})

ContrRemove(p, c) == RemoveFirst(p.contradicted, c)

_build_clauses_by_literal(clauses, lits) ==
  [l \in lits |->
     LET hits == {i \in DOMAIN clauses : InSeq(clauses[i], l)}
     IN  SortedSeq(hits)]

_initial_unit_clauses_check(clauses) ==
  {i \in DOMAIN clauses : Len(clauses[i]) = 1}

_initialize_watched_literals(original) ==
  [i \in DOMAIN original |->
     IF Len(original[i]) <= 2 THEN original[i] ELSE SubSeq(original[i], 1, 2)]

initialize_computed_fields(kind, cnf) ==
  LET watched == IF kind = "plain" THEN cnf ELSE _initialize_watched_literals(cnf)
      lits == LitsOver(VarsOf(cnf))
  IN  [ kind |-> kind,
        original_clauses |-> cnf,
        clauses |-> watched,
        assignments |-> [v \in VarsOf(cnf) |-> 0],
        satisfaction_map |-> [i \in DOMAIN cnf |-> FALSE],
        clauses_by_literal |->
          IF kind = "true_twl" THEN _build_clauses_by_literal(watched, lits)
          ELSE _build_clauses_by_literal(cnf, lits),
        clauses_by_watched_literal |->
          IF kind = "twl" THEN _build_clauses_by_literal(watched, lits)
          ELSE [l \in lits |-> << >>],
        num_satisfying |-> [i \in DOMAIN cnf |-> 0],
        num_unassigned |-> [i \in DOMAIN cnf |-> Len(watched[i])],
        contradicted |-> << >>,
        unitary |-> _initial_unit_clauses_check(watched),
        err |-> FALSE ]

(***************************************************************************)
(* SATProblem._new_literal_assigned and _old_literal_unassigned.           *)
(***************************************************************************)
MarkAfterDecrement_UnitOnly(p, c) ==
  IF p.num_unassigned[c] = 1 /\ ~p.satisfaction_map[c]
    THEN [p EXCEPT !.unitary = @ \cup {c}]
  ELSE p

MarkAfterDecrement(p, c) ==
  IF p.num_unassigned[c] = 0 /\ ~p.satisfaction_map[c]
    THEN [p EXCEPT !.contradicted = ContrAdd(p, c)]
  ELSE IF p.num_unassigned[c] = 1 /\ ~p.satisfaction_map[c]
    THEN [p EXCEPT !.unitary = @ \cup {c}]
  ELSE p

PlainSatisfyStep(p, c) ==
  [p EXCEPT !.satisfaction_map[c] = TRUE,
            !.num_satisfying[c] = @ + 1,
            !.num_unassigned[c] = @ - 1,
            !.unitary = @ \ {c}]

PlainFalsifyStep_NoDecrement(p, c) == MarkAfterDecrement(p, c)

PlainFalsifyStep(p, c) ==
  MarkAfterDecrement([p EXCEPT !.num_unassigned[c] = @ - 1], c)

RECURSIVE PlainSatisfyLoop(_, _, _)
PlainSatisfyLoop(p, cs, k) ==
  IF k > Len(cs) THEN p ELSE PlainSatisfyLoop(PlainSatisfyStep(p, cs[k]), cs, k + 1)

RECURSIVE PlainFalsifyLoop(_, _, _)
PlainFalsifyLoop(p, cs, k) ==
  IF k > Len(cs) THEN p ELSE PlainFalsifyLoop(PlainFalsifyStep(p, cs[k]), cs, k + 1)

Plain_new_literal_assigned(p, assigned_literal) ==
  LET p1 == PlainSatisfyLoop(p, p.clauses_by_literal[assigned_literal], 1)
  IN  PlainFalsifyLoop(p1, p1.clauses_by_literal[0 - assigned_literal], 1)

UnsatisfyStep_KeepsSatisfied(p, c, counted) ==
  [p EXCEPT !.num_unassigned[c] = IF counted THEN @ + 1 ELSE @,
            !.num_satisfying[c] = @ - 1]

(* First loop of _old_literal_unassigned: the clauses holding the literal. *)
UnsatisfyStep(p, c, counted) ==
  LET p1 == [p EXCEPT !.num_unassigned[c] = IF counted THEN @ + 1 ELSE @,
                      !.num_satisfying[c] = @ - 1]
  IN  IF p1.num_satisfying[c] = 0
        THEN [p1 EXCEPT !.satisfaction_map[c] = FALSE,
                        !.unitary = IF p1.num_unassigned[c] = 1 THEN @ \cup {c} ELSE @]
        ELSE p1

UnfalsifyStep_KeepsUnitary(p, c) ==
  LET p1 == IF /\ p.num_satisfying[c] = 0
               /\ ~p.satisfaction_map[c]
               /\ InSeq(p.contradicted, c)
              THEN [p EXCEPT !.contradicted = ContrRemove(p, c),
                             !.unitary = @ \cup {c}]
              ELSE p
  IN  [p1 EXCEPT !.num_unassigned[c] = @ + 1]

(* Second loop: the clauses holding the opposite literal. *)
UnfalsifyStep(p, c) ==
  LET p1 == IF /\ p.num_satisfying[c] = 0
               /\ ~p.satisfaction_map[c]
               /\ InSeq(p.contradicted, c)
              THEN [p EXCEPT !.contradicted = ContrRemove(p, c),
                             !.unitary = @ \cup {c}]
              ELSE p
      p2 == [p1 EXCEPT !.num_unassigned[c] = @ + 1]
  IN  IF c \in p2.unitary /\ ~p2.satisfaction_map[c] /\ p2.num_unassigned[c] > 1
        THEN [p2 EXCEPT !.unitary = @ \ {c}]
        ELSE p2

RECURSIVE PlainUnsatisfyLoop(_, _, _)
PlainUnsatisfyLoop(p, cs, k) ==
  IF k > Len(cs) THEN p
  ELSE PlainUnsatisfyLoop(UnsatisfyStep(p, cs[k], TRUE), cs, k + 1)

RECURSIVE PlainUnfalsifyLoop(_, _, _)
PlainUnfalsifyLoop(p, cs, k) ==
  IF k > Len(cs) THEN p ELSE PlainUnfalsifyLoop(UnfalsifyStep(p, cs[k]), cs, k + 1)

Plain_old_literal_unassigned(p, unassigned_literal) ==
  LET p1 == PlainUnsatisfyLoop(p, p.clauses_by_literal[unassigned_literal], 1)
  IN  PlainUnfalsifyLoop(p1, p1.clauses_by_literal[0 - unassigned_literal], 1)

(***************************************************************************)
(* TWLSATProblem: _update_watched_literals, _new_literal_assigned,         *)
(* _old_literal_unassigned.  An operator that returns a Python value       *)
(* returns the record [p |-> the State, ok |-> the value].                 *)
(***************************************************************************)
SwapWatch_KeepsOld(p, c, out, in, index) ==
  LET bad == ~InSeq(p.clauses[c], out) \/ ~InSeq(index[out], c)
      idx == [index EXCEPT ![out] = RemoveFirst(@, c)]
  IN  [ clauses |-> [p.clauses EXCEPT ![c] = Append(@, in)],
        index |-> [idx EXCEPT ![in] = Append(@, c)],
        err |-> p.err \/ bad ]

SwapWatch(p, c, out, in, index) ==
  LET bad == ~InSeq(p.clauses[c], out) \/ ~InSeq(index[out], c)
      idx == [index EXCEPT ![out] = RemoveFirst(@, c)]
  IN  [ clauses |-> [p.clauses EXCEPT ![c] = Append(RemoveFirst(@, out), in)],
        index |-> [idx EXCEPT ![in] = Append(@, c)],
        err |-> p.err \/ bad ]

Twl_update_watched_literals(p, clause_index, assigned_literal) ==
  LET oc == p.original_clauses[clause_index]
      cand == {k \in DOMAIN oc :
                 /\ ~InSeq(p.clauses[clause_index], oc[k])
                 /\ LitUnassigned(p.assignments, oc[k])}
  IN  IF p.satisfaction_map[clause_index] \/ cand = {}
        THEN [p |-> p, ok |-> FALSE]
        ELSE LET sw == SwapWatch(p, clause_index, 0 - assigned_literal,
                                 oc[MinOf(cand)], p.clauses_by_watched_literal)
             IN  [p |-> [p EXCEPT !.clauses = sw.clauses,
                                  !.clauses_by_watched_literal = sw.index,
                                  !.err = sw.err],
                  ok |-> TRUE]

TwlSatisfyStep(p, c, lit) ==
  LET p1 == [p EXCEPT !.satisfaction_map[c] = TRUE, !.num_satisfying[c] = @ + 1]
  IN  IF InSeq(p1.clauses[c], lit)
        THEN [p1 EXCEPT !.num_unassigned[c] = @ - 1, !.unitary = @ \ {c}]
        ELSE p1

RECURSIVE TwlSatisfyLoop(_, _, _, _)
TwlSatisfyLoop(p, cs, k, lit) ==
  IF k > Len(cs) THEN p ELSE TwlSatisfyLoop(TwlSatisfyStep(p, cs[k], lit), cs, k + 1, lit)

TwlFalsifyStep(p, c, lit) ==
  LET r == Twl_update_watched_literals(p, c, lit)
  IN  IF r.ok THEN r.p
      ELSE MarkAfterDecrement([r.p EXCEPT !.num_unassigned[c] = @ - 1], c)

RECURSIVE TwlFalsifyLoop(_, _, _, _)
TwlFalsifyLoop(p, cs, k, lit) ==
  IF k > Len(cs) THEN p ELSE TwlFalsifyLoop(TwlFalsifyStep(p, cs[k], lit), cs, k + 1, lit)

Twl_new_literal_assigned(p, assigned_literal) ==
  LET p1 == TwlSatisfyLoop(p, p.clauses_by_literal[assigned_literal], 1, assigned_literal)
  IN  TwlFalsifyLoop(p1, p1.clauses_by_watched_literal[0 - assigned_literal], 1,
                     assigned_literal)

RECURSIVE TwlUnsatisfyLoop(_, _, _, _)
TwlUnsatisfyLoop(p, cs, k, lit) ==
  IF k > Len(cs) THEN p
  ELSE TwlUnsatisfyLoop(UnsatisfyStep(p, cs[k], InSeq(p.clauses[cs[k]], lit)),
                        cs, k + 1, lit)

RECURSIVE TwlUnfalsifyLoop(_, _, _, _)
TwlUnfalsifyLoop(p, cs, k, lit) ==
  IF k > Len(cs) THEN p
  ELSE TwlUnfalsifyLoop(IF InSeq(p.clauses[cs[k]], 0 - lit)
                          THEN UnfalsifyStep(p, cs[k]) ELSE p,
                        cs, k + 1, lit)

Twl_old_literal_unassigned_AllOccurrences(p, unassigned_literal) ==
  LET p1 == TwlUnsatisfyLoop(p, p.clauses_by_literal[unassigned_literal], 1,
                             unassigned_literal)
  IN  PlainUnfalsifyLoop(p1, p1.clauses_by_literal[0 - unassigned_literal], 1)

Twl_old_literal_unassigned(p, unassigned_literal) ==
  LET p1 == TwlUnsatisfyLoop(p, p.clauses_by_literal[unassigned_literal], 1,
                             unassigned_literal)
  IN  TwlUnfalsifyLoop(p1, p1.clauses_by_literal[0 - unassigned_literal], 1,
                       unassigned_literal)

(***************************************************************************)
(* TrueTWLSATProblem: clauses_by_literal indexes the watched literals.     *)
(* _update_watched_literals takes as new watch the first literal of the    *)
(* original clause, outside the watches, that is true (the clause becomes  *)
(* satisfied, the method returns False) or unassigned (it returns True);   *)
(* with no such literal it returns None, which the caller reads as False.  *)
(***************************************************************************)
TrueTwl_update_watched_literals(p, clause_index, assigned_literal) ==
  LET oc == p.original_clauses[clause_index]
      cand == {k \in DOMAIN oc :
                 /\ ~InSeq(p.clauses[clause_index], oc[k])
                 /\ \/ LitTrue(p.assignments, oc[k])
                    \/ LitUnassigned(p.assignments, oc[k])}
  IN  IF p.satisfaction_map[clause_index] \/ cand = {}
        THEN [p |-> p, ok |-> FALSE]
        ELSE LET lit == oc[MinOf(cand)]
                 sw == SwapWatch(p, clause_index, 0 - assigned_literal, lit,
                                 p.clauses_by_literal)
                 p1 == [p EXCEPT !.clauses = sw.clauses,
                                 !.clauses_by_literal = sw.index,
                                 !.err = sw.err]
             IN  IF LitTrue(p.assignments, lit)
                   THEN [p |-> [p1 EXCEPT !.num_satisfying[clause_index] = @ + 1,
                                          !.satisfaction_map[clause_index] = TRUE],
                         ok |-> FALSE]
                   ELSE [p |-> p1, ok |-> TRUE]

TrueTwlFalsifyStep(p, c, lit) ==
  LET r == TrueTwl_update_watched_literals(p, c, lit)
  IN  IF r.ok THEN r.p
      ELSE MarkAfterDecrement([r.p EXCEPT !.num_unassigned[c] = @ - 1], c)

RECURSIVE TrueTwlFalsifyLoop(_, _, _, _)
TrueTwlFalsifyLoop(p, cs, k, lit) ==
  IF k > Len(cs) THEN p
  ELSE TrueTwlFalsifyLoop(TrueTwlFalsifyStep(p, cs[k], lit), cs, k + 1, lit)

TrueTwl_new_literal_assigned(p, assigned_literal) ==
  LET p1 == PlainSatisfyLoop(p, p.clauses_by_literal[assigned_literal], 1)
  IN  TrueTwlFalsifyLoop(p1, p1.clauses_by_literal[0 - assigned_literal], 1,
                         assigned_literal)

TrueTwl_old_literal_unassigned(p, unassigned_literal) ==
  Plain_old_literal_unassigned(p, unassigned_literal)

(***************************************************************************)
(* update_satisfaction_map, by operation.                                  *)
(***************************************************************************)
_new_literal_assigned(p, lit) ==
  IF p.kind = "plain" THEN Plain_new_literal_assigned(p, lit)
  ELSE IF p.kind = "twl" THEN Twl_new_literal_assigned(p, lit)
  ELSE TrueTwl_new_literal_assigned(p, lit)

_old_literal_unassigned(p, lit) ==
  IF p.kind = "plain" THEN Plain_old_literal_unassigned(p, lit)
  ELSE IF p.kind = "twl" THEN Twl_old_literal_unassigned(p, lit)
  ELSE TrueTwl_old_literal_unassigned(p, lit)

RECURSIVE UndoAssignment(_, _, _)
UndoAssignment(p, literals_to_unassign, k) ==
  IF k > Len(literals_to_unassign) THEN p
  ELSE UndoAssignment(_old_literal_unassigned(p, literals_to_unassign[k]),
                      literals_to_unassign, k + 1)

NewAssignment(p, literal_to_assign) == _new_literal_assigned(p, literal_to_assign)

ChangeAssignment(p, literal_to_assign) ==
  _new_literal_assigned(_old_literal_unassigned(p, 0 - literal_to_assign),
                        literal_to_assign)

is_satisfied(p) == \A i \in DOMAIN p.satisfaction_map : p.satisfaction_map[i]
is_unsatisfiable(p) == Len(p.contradicted) >= 1

(***************************************************************************)
(* The three mutators as the engines issue them: the engine writes or      *)
(* deletes the key of `assignments`, then calls update_satisfaction_map.   *)
(***************************************************************************)
SetKey(p, lit) == [p EXCEPT !.assignments[Abs(lit)] = Sign(lit)]
DelKey(p, lit) == [p EXCEPT !.assignments[Abs(lit)] = 0]

assign(p, lit) == NewAssignment(SetKey(p, lit), lit)
unassign(p, lit) == UndoAssignment(DelKey(p, lit), <<lit>>, 1)
flip(p, lit) == ChangeAssignment(SetKey(p, lit), lit)

(***************************************************************************)
(* The branching heuristics.  They read problem.clauses (the watched       *)
(* literals under TWL and TrueTWL), satisfaction_map and assignments.  An  *)
(* occurrence is a pair <<clause index, position>>; Python walks them in   *)
(* clause order, and a dict keeps its keys in the order of first           *)
(* insertion.  A heuristic's outcome is the record [raised, value], where  *)
(* the value 0 is None.                                                    *)
(***************************************************************************)
MomsK == 0

Heuristics == {"default", "dlcs", "dlis", "rdlcs", "rdlis", "moms", "rmoms"}

Returned(v) == [raised |-> FALSE, value |-> v]
Raised == [raised |-> TRUE, value |-> 0]

Occurrences(p) == UNION {{<<i, j>> : j \in DOMAIN p.clauses[i]} : i \in DOMAIN p.clauses}
LitAt(p, o) == p.clauses[o[1]][o[2]]
Before(a, b) == a[1] < b[1] \/ (a[1] = b[1] /\ a[2] < b[2])
FirstOf(S) == CHOOSE a \in S : \A b \in S : a = b \/ Before(a, b)

(* The occurrences default_heuristic and _count_literals keep: unassigned  *)
(* literals of clauses not marked satisfied.                               *)
OpenOccurrences(p) ==
  {o \in Occurrences(p) :
     ~p.satisfaction_map[o[1]] /\ LitUnassigned(p.assignments, LitAt(p, o))}

default_heuristic(p) ==
  IF OpenOccurrences(p) = {} THEN Returned(0)
  ELSE Returned(Abs(LitAt(p, FirstOf(OpenOccurrences(p)))))

(* A count dict over the occurrences S: its keys, the position at which    *)
(* each key was inserted, and the counts of the two signs.                 *)
KeysOf(p, S) == {Abs(LitAt(p, o)) : o \in S}
InsertedAt(p, S, var) == FirstOf({o \in S : Abs(LitAt(p, o)) = var})
CountOf(p, S, lit) == Cardinality({o \in S : LitAt(p, o) = lit})

_count_literals(p) == OpenOccurrences(p)

BestKey_LastInserted(p, S, score) ==
  CHOOSE var \in KeysOf(p, S) :
    \A w \in KeysOf(p, S) \ {var} :
      \/ score[var] > score[w]
      \/ score[var] = score[w] /\ Before(InsertedAt(p, S, w), InsertedAt(p, S, var))

(* The loop `if score > best: best = ...` over the dict: the key of        *)
(* maximal score that was inserted first.                                  *)
BestKey(p, S, score) ==
  CHOOSE var \in KeysOf(p, S) :
    \A w \in KeysOf(p, S) \ {var} :
      \/ score[var] > score[w]
      \/ score[var] = score[w] /\ Before(InsertedAt(p, S, var), InsertedAt(p, S, w))

SignOf(p, S, var) == IF CountOf(p, S, var) >= CountOf(p, S, 0 - var) THEN 1 ELSE -1

dlcs(p) ==
  LET S == _count_literals(p)
      combined_sum == [var \in KeysOf(p, S) |->
                         CountOf(p, S, var) + CountOf(p, S, 0 - var)]
  IN  IF S = {} THEN Raised
      ELSE LET best_var == BestKey(p, S, combined_sum)
           IN  Returned(best_var * SignOf(p, S, best_var))

(* dlis compares, key by key, the positive count and then the negative     *)
(* count with the best so far.                                             *)
dlis(p) ==
  LET S == _count_literals(p)
      cands == LitsOver(KeysOf(p, S))
      Earlier(a, b) ==
        \/ Abs(a) # Abs(b) /\ Before(InsertedAt(p, S, Abs(a)), InsertedAt(p, S, Abs(b)))
        \/ Abs(a) = Abs(b) /\ a > b
      best == CHOOSE l \in cands :
                \A m \in cands \ {l} :
                  \/ CountOf(p, S, l) > CountOf(p, S, m)
                  \/ CountOf(p, S, l) = CountOf(p, S, m) /\ Earlier(l, m)
  IN  IF S = {} THEN Raised ELSE Returned(best)

(* MOMs: min() of an empty sequence raises when every clause is marked     *)
(* satisfied.  The count runs over every literal of the smallest clauses.  *)
_count_occurrences_in_smallest_clauses(p) ==
  LET open == {i \in DOMAIN p.clauses : ~p.satisfaction_map[i]}
      size(i) == CountUnassigned(p.assignments, p.clauses[i])
      min_clause_size == MinOf({size(i) : i \in open})
  IN  {o \in Occurrences(p) : o[1] \in open /\ size(o[1]) = min_clause_size}

moms(p, k) ==
  LET S == _count_occurrences_in_smallest_clauses(p)
      score == [var \in KeysOf(p, S) |->
                  (CountOf(p, S, var) + CountOf(p, S, 0 - var)) * (2 ^ k)
                    + CountOf(p, S, var) * CountOf(p, S, 0 - var)]
  IN  IF \A i \in DOMAIN p.clauses : p.satisfaction_map[i] THEN Raised
      ELSE IF S = {} THEN Raised
      ELSE LET best_var == BestKey(p, S, score)
           IN  Returned(best_var * SignOf(p, S, best_var))

(* The randomized variants return the variable with either sign. *)
Randomized(r) ==
  IF r.raised THEN {Raised} ELSE {Returned(r.value), Returned(0 - r.value)}

rdlcs(p) == Randomized(dlcs(p))
rdlis(p) == Randomized(dlis(p))
rmoms(p, k) == Randomized(moms(p, k))

(* heuristic_function(problem), as the set of its possible outcomes. *)
heuristic_function(name, p) ==
  IF name = "default" THEN {default_heuristic(p)}
  ELSE IF name = "dlcs" THEN {dlcs(p)}
  ELSE IF name = "dlis" THEN {dlis(p)}
  ELSE IF name = "rdlcs" THEN rdlcs(p)
  ELSE IF name = "rdlis" THEN rdlis(p)
  ELSE IF name = "moms" THEN {moms(p, MomsK)}
  ELSE rmoms(p, MomsK)

(* The State a heuristic call leaves behind: the heuristics read           *)
(* problem.clauses, problem.assignments and problem.satisfaction_map into   *)
(* dicts and lists of their own and assign to no attribute of the problem. *)
StateAfterHeuristic_MarksSatisfied(name, p) ==
  [p EXCEPT !.satisfaction_map = [i \in DOMAIN p.satisfaction_map |-> TRUE]]

StateAfterHeuristic(name, p) == p

(* _choose_decision_literal: abs() of None raises TypeError. *)
_choose_decision_literal(name, p) ==
  {IF r.raised \/ r.value = 0 THEN Raised ELSE r : r \in heuristic_function(name, p)}

(***************************************************************************)
(* State of the model.                                                     *)
(*   formula            the clauses the reader handed over                 *)
(*   problem            the State object                                   *)
(*   engine             "state" (the State driven directly), "dpll",       *)
(*                      "cdcl"                                             *)
(*   heuristic          the constructor's heuristic name                   *)
(*   pc, stack, ret     position of the engine, frames of _dpll_recursive, *)
(*                      value being returned                               *)
(*   decision_level, implication_graph, learned_clauses, analysis          *)
(*                      fields of the solvers and locals of                *)
(*                      _analyze_conflict                                  *)
(*   result             "none" while running, then "SAT", "UNSAT" or       *)
(*                      "error" (an exception left solve())                *)
(*   dpll_result        what DPLLSolver.solve() ended with, kept while     *)
(*                      CDCLSolver runs on the same input                  *)
(*   args               what the caller handed to ClausesModel and to the  *)
(*                      solver's constructor: the clauses as read (each    *)
(*                      ends with the 0 sentinel), num_vars, num_clauses,  *)
(*                      the twl and true_twl flags and the heuristic name  *)
(*   ple_affected       the literals the last pass of pure-literal          *)
(*                      elimination assigned (affected_literals in solve() *)
(*                      of the first DPLLSolver)                           *)
(*   ops                the number of State operations issued so far by    *)
(*                      the driver of SpecTwlAdd (0 elsewhere)             *)
(***************************************************************************)
VARIABLES args, ple_affected, formula, problem, engine, heuristic, pc, stack, ret, decision_level,
          implication_graph, learned_clauses, analysis, result, dpll_result, ops

vars == <<args, ple_affected, formula, problem, engine, heuristic, pc, stack, ret, decision_level,
          implication_graph, learned_clauses, analysis, result, dpll_result, ops>>

engineVars == <<engine, heuristic, pc, stack, ret, decision_level,
                implication_graph, learned_clauses, analysis, result, dpll_result, ops>>

NoAnalysis ==
  [conflict_clause |-> << >>, learned_clause |-> {}, seen_literals |-> {},
   decision_level_literals |-> << >>]

(***************************************************************************)
(* SpecState (the plain State) and SpecTwl (the TWL and TrueTWL States):   *)
(* the State object driven by any sequence of assign, unassign and flip,   *)
(* each called with its precondition met.                                  *)
(***************************************************************************)
(***************************************************************************)
(* The arguments behind a constructed State or solver: ClausesModel keeps  *)
(* each clause without its trailing 0, so the clauses as read carry it.    *)
(***************************************************************************)
WithSentinel(cnf) == [i \in DOMAIN cnf |-> Append(cnf[i], 0)]

ArgsOf(kind, cnf, name) ==
  [clauses     |-> WithSentinel(cnf),
   num_vars    |-> Cardinality(VarsOf(cnf)),
   num_clauses |-> Len(cnf),
   twl         |-> kind = "twl",
   true_twl    |-> kind = "true_twl",
   heuristic   |-> name]

InitDriven(kinds, maxClauses) ==
  /\ \E n \in 1..maxClauses : formula \in FormulasOfLen(n)
  /\ \E kind \in kinds : problem = initialize_computed_fields(kind, formula)
  /\ args = ArgsOf(problem.kind, formula, "default")
  /\ engine = "state"
  /\ heuristic = "default"
  /\ pc = "idle"
  /\ stack = << >>
  /\ ret = FALSE
  /\ decision_level = 0
  /\ implication_graph = << >>
  /\ learned_clauses = << >>
  /\ analysis = NoAnalysis
  /\ result = "none"
  /\ dpll_result = "none"
  /\ ops = 0
  /\ ple_affected = {}

Assign(lit) ==
  /\ engine = "state"
  /\ LitUnassigned(problem.assignments, lit)
  /\ problem' = assign(problem, lit)
  /\ UNCHANGED <<args, ple_affected, formula, engineVars>>

Unassign(lit) ==
  /\ engine = "state"
  /\ LitTrue(problem.assignments, lit)
  /\ problem' = unassign(problem, lit)
  /\ UNCHANGED <<args, ple_affected, formula, engineVars>>

Flip(lit) ==
  /\ engine = "state"
  /\ LitFalse(problem.assignments, lit)
  /\ problem' = flip(problem, lit)
  /\ UNCHANGED <<args, ple_affected, formula, engineVars>>

KeysOfState == DOMAIN problem.clauses_by_literal

NextState ==
  \/ \E lit \in KeysOfState : Assign(lit)
  \/ \E lit \in KeysOfState : Unassign(lit)
  \/ \E lit \in KeysOfState : Flip(lit)

InitState == InitDriven({"plain"}, MaxStateClauses)
SpecState == InitState /\ [][NextState]_vars

InitTwl == InitDriven({"twl", "true_twl"}, MaxTwlClauses)
SpecTwl == InitTwl /\ [][NextState]_vars

(***************************************************************************)
(* add_clause of TWLSATProblem and TrueTWLSATProblem.  The comparison      *)
(* `assignments[abs(lit)] == lit > 0` is chained: it holds only for the    *)
(* literal 1 with variable 1 assigned True.                                *)
(***************************************************************************)
RECURSIVE Replay(_, _, _)
Replay(p, lits, k) ==
  IF k > Len(lits) THEN p ELSE Replay(_new_literal_assigned(p, lits[k]), lits, k + 1)

RECURSIVE LiteralsToUnassign(_, _, _)
LiteralsToUnassign(a, clause, k) ==
  IF k > Len(clause) THEN << >>
  ELSE LET lit == clause[k]
           here == IF LitUnassigned(a, lit) THEN << >>
                   ELSE IF lit = 1 /\ a[1] = 1 THEN <<lit>>
                   ELSE <<0 - lit>>
       IN  here \o LiteralsToUnassign(a, clause, k + 1)

Register(index, lits, n) ==
  [l \in DOMAIN index |-> IF InSeq(lits, l) THEN Append(index[l], n) ELSE index[l]]

add_clause(p, clause) ==
  LET n == Len(p.original_clauses) + 1
      clause_with_twl == _initialize_watched_literals(<<clause>>)[1]
      p1 == [p EXCEPT !.original_clauses = Append(@, clause),
                      !.clauses = Append(@, clause_with_twl),
                      !.satisfaction_map = Append(@, FALSE),
                      !.num_satisfying = Append(@, 0),
                      !.unitary = IF Len(clause_with_twl) = 1 THEN @ \cup {n} ELSE @,
                      !.num_unassigned =
                         Append(@, IF Len(clause_with_twl) = 1 THEN 1 ELSE 2)]
      literals_to_unassign == LiteralsToUnassign(p1.assignments, clause, 1)
      p2 == UndoAssignment(p1, literals_to_unassign, 1)
      p3 == IF p.kind = "twl"
              THEN [p2 EXCEPT !.clauses_by_literal = Register(@, clause, n),
                              !.clauses_by_watched_literal =
                                 Register(@, clause_with_twl, n)]
              ELSE [p2 EXCEPT !.clauses_by_literal = Register(@, clause_with_twl, n)]
      p4 == Replay(p3, literals_to_unassign, 1)
  IN  [p4 EXCEPT !.contradicted =
                    IF InSeq(p4.contradicted, n)
                      THEN ContrAdd(p1, n)
                      ELSE p1.contradicted,
                 !.unitary =
                    IF n \in p4.unitary THEN p1.unitary \cup {n} ELSE p1.unitary]

(***************************************************************************)
(* SpecTwlAdd: the TWL and TrueTWL States driven by any sequence of        *)
(* assign, unassign, flip and add_clause.  add_clause is handed a clause   *)
(* over the variables of the formula, as the CDCL engine hands it one; an  *)
(* exception raised inside a State method ends the sequence, and so does   *)
(* the MaxOps-th operation.                                                *)
(***************************************************************************)
MaxAddedClauses == 1
MaxOps == 3

Addable(clause) == \A j \in DOMAIN clause : Abs(clause[j]) \in VarsOf(formula)
AddableClauses == {c \in AllClauses : Addable(c)}

(* One operation of the driver, ending with the State p. *)
Op(p) ==
  /\ engine = "state"
  /\ ~problem.err
  /\ ops < MaxOps
  /\ problem' = p
  /\ ops' = ops + 1
  /\ UNCHANGED <<args, ple_affected, formula, engine, heuristic, pc, stack, ret, decision_level,
                 implication_graph, learned_clauses, analysis, result, dpll_result>>

OpAssign(lit) == LitUnassigned(problem.assignments, lit) /\ Op(assign(problem, lit))
OpUnassign(lit) == LitTrue(problem.assignments, lit) /\ Op(unassign(problem, lit))
OpFlip(lit) == LitFalse(problem.assignments, lit) /\ Op(flip(problem, lit))

OpAddClause(clause) ==
  /\ ops < MaxOps
  /\ Len(problem.original_clauses) < Len(formula) + MaxAddedClauses
  /\ Addable(clause)
  /\ Op(add_clause(problem, clause))

NextTwlAdd ==
  \/ \E lit \in KeysOfState : OpAssign(lit)
  \/ \E lit \in KeysOfState : OpUnassign(lit)
  \/ \E lit \in KeysOfState : OpFlip(lit)
  \/ \E clause \in AllClauses : OpAddClause(clause)

SpecTwlAdd == InitTwl /\ [][NextTwlAdd]_vars

(***************************************************************************)
(* The engines.  SpecSolve builds DPLLSolver for a formula, a State        *)
(* variant and a heuristic, runs solve() to its end, then builds           *)
(* CDCLSolver for the same input and runs its solve().                     *)
(*                                                                         *)
(* Iterating a Python set visits its elements in an order the language     *)
(* leaves open: the unit clause taken by _unit_propagation, the element    *)
(* taken by set.pop(), and the order of list(learned_clause) are choices   *)
(* of the model.  OrderedSet.pop() takes the last element.                 *)
(***************************************************************************)
MaxSolveClauses == 2

(* Formulas kept beside the exhaustive family: each is a sequence of       *)
(* clauses over at most five variables.  The last one is the DIMACS line   *)
(* "0" alone: validate_clauses accepts the clause [0] and strips it to [].  *)
Scenarios ==
  { << <<5, -4, 2>>, <<-3, 5>>, <<-3, -5, 1>>, <<2, -1, -5>>, <<3, 1, -4>>,
       <<4>>, <<-2, -1, -4>> >>,
    << <<-5, 2, 1>>, <<4, -2>>, <<-1, 2>>, <<5, 1>>, <<3>>, <<-3, -4, 1>>,
       <<4, -1>>, <<-2, -5, -1>> >>,
    << <<-2, -4>>, <<-1, 4, 2>>, <<1, 4, -2>>, <<-3, 2, 4>>, <<-1, -2>> >>,
    << << >> >> }

SolveFormulas == UNION {FormulasOfLen(n) : n \in 1..MaxSolveClauses} \cup Scenarios

(* The State constructors that return: _initialize_watched_literals raises *)
(* ValueError for a clause without literals.                               *)
Constructible(kind, cnf) ==
  kind = "plain" \/ \A i \in DOMAIN cnf : cnf[i] # << >>

Perms(S) ==
  {s \in [1..Cardinality(S) -> S] : \A i, j \in DOMAIN s : i # j => s[i] # s[j]}

(* `del assignments[abs(lit)]` for each literal of a list, in order; the   *)
(* KeyError of an absent key is recorded.                                  *)
RECURSIVE DelKeys(_, _, _)
DelKeys(p, lits, k) ==
  IF k > Len(lits) THEN p
  ELSE DelKeys([p EXCEPT !.assignments[Abs(lits[k])] = 0,
                         !.err = @ \/ LitUnassigned(p.assignments, lits[k])],
               lits, k + 1)

(* next(lit for lit in clauses[i] if abs(lit) not in assignments); 0 when  *)
(* the generator is exhausted (StopIteration).                             *)
UnitLiteral(p, i) ==
  LET open == {j \in DOMAIN p.clauses[i] : LitUnassigned(p.assignments, p.clauses[i][j])}
  IN  IF open = {} THEN 0 ELSE p.clauses[i][MinOf(open)]

(* A frame of _dpll_recursive past its base cases: its locals, its place   *)
(* (before or after the first branch), and the State and decision_level it *)
(* was entered with.                                                       *)
NewFrame ==
  [decision_literal |-> 0, propagated_literals |-> << >>, first_branch |-> TRUE,
   entry_problem |-> problem, entry_level |-> decision_level]
Top == stack[Len(stack)]
Pop == SubSeq(stack, 1, Len(stack) - 1)
SetTop(f) == [stack EXCEPT ![Len(stack)] = f]

InitSolve ==
  /\ formula \in SolveFormulas
  /\ \E kind \in Kinds :
       /\ Constructible(kind, formula)
       /\ problem = initialize_computed_fields(kind, formula)
  /\ engine = "dpll"
  /\ heuristic \in Heuristics
  /\ pc = "entry"
  /\ args = ArgsOf(problem.kind, formula, heuristic)
  /\ stack = << >>
  /\ ret = FALSE
  /\ decision_level = 0
  /\ implication_graph = << >>
  /\ learned_clauses = << >>
  /\ analysis = NoAnalysis
  /\ result = "none"
  /\ dpll_result = "none"
  /\ ops = 0
  /\ ple_affected = {}

(* An exception leaves solve(). *)
Raise(p) ==
  /\ problem' = p
  /\ result' = "error"
  /\ pc' = "done"
  /\ UNCHANGED <<args, ple_affected, formula, ops, engine, heuristic, stack, ret, decision_level,
                 implication_graph, learned_clauses, analysis, dpll_result>>

(* A step of DPLL that ends with the State p. *)
DpllGo(p, newpc, newstack, newret, newlevel) ==
  IF p.err THEN Raise(p)
  ELSE /\ problem' = p
       /\ pc' = newpc
       /\ stack' = newstack
       /\ ret' = newret
       /\ decision_level' = newlevel
       /\ UNCHANGED <<args, ple_affected, formula, ops, engine, heuristic, implication_graph, learned_clauses,
                      analysis, result, dpll_result>>

(* _dpll_recursive, the base cases. *)
DpllEnter ==
  /\ engine = "dpll" /\ pc = "entry"
  /\ IF is_satisfied(problem) THEN DpllGo(problem, "return", stack, TRUE, decision_level)
     ELSE IF is_unsatisfiable(problem)
       THEN DpllGo(problem, "return", stack, FALSE, decision_level)
     ELSE DpllGo(problem, "bcp", Append(stack, NewFrame), ret, decision_level)

(* _unit_propagation finds nothing to propagate and returns                *)
(* (False, None, None): get_unitary_clauses() is empty.                    *)
NoUnitClause_Regardless(p) == TRUE

NoUnitClause(p) == p.unitary = {}

(* One round of _unit_propagation_loop: _unit_propagation, the update of   *)
(* the State, and the two checks.                                          *)
DpllPropagateClause(i) ==
  /\ engine = "dpll" /\ pc = "bcp"
  /\ i \in problem.unitary
  /\   LET unit_literal == UnitLiteral(problem, i)
           p1 == assign(problem, unit_literal)
           propagated_literals == Append(Top.propagated_literals, unit_literal)
       IN  IF unit_literal = 0 THEN Raise(problem)
           ELSE IF p1.err THEN Raise(p1)
           ELSE IF is_satisfied(p1) THEN DpllGo(p1, "return", Pop, TRUE, decision_level)
           ELSE IF is_unsatisfiable(p1)
             THEN DpllGo(UndoAssignment(DelKeys(p1, propagated_literals, 1),
                                        propagated_literals, 1),
                         "return", Pop, FALSE, decision_level)
           ELSE DpllGo(p1, "bcp",
                       SetTop([Top EXCEPT !.propagated_literals = propagated_literals]),
                       ret, decision_level)

(* `for i in self.problem.get_unitary_clauses()` with its `return` in the  *)
(* first iteration: the first index the iteration of the set yields, which *)
(* the language leaves open.                                               *)
DpllUnitPropagate == \E i \in problem.unitary : DpllPropagateClause(i)

(* No unit clause: _choose_decision_literal, _make_decision(first_branch)  *)
(* and the recursive call.                                                 *)
DpllDecide ==
  /\ engine = "dpll" /\ pc = "bcp"
  /\ NoUnitClause(problem)
  /\ \E r \in _choose_decision_literal(heuristic, problem) :
       IF r.raised THEN Raise(StateAfterHeuristic(heuristic, problem))
       ELSE DpllGo(assign(StateAfterHeuristic(heuristic, problem), r.value), "entry",
                   SetTop([Top EXCEPT !.decision_literal = r.value]),
                   ret, decision_level + 1)

(* A call returned True: the caller returns True. *)
DpllReturnTrue ==
  /\ engine = "dpll" /\ pc = "return"
  /\ stack # << >> /\ ret
  /\ DpllGo(problem, "return", Pop, TRUE, decision_level)

(* The first branch failed: _make_decision(-decision_literal) and the      *)
(* second recursive call.                                                  *)
DpllSecondBranch ==
  /\ engine = "dpll" /\ pc = "return"
  /\ stack # << >> /\ ~ret /\ Top.first_branch
  /\ DpllGo(flip(problem, 0 - Top.decision_literal), "entry",
            SetTop([Top EXCEPT !.first_branch = FALSE]), ret, decision_level)

(* Both branches failed: _undo_assignments and return False. *)
DpllBacktrack ==
  /\ engine = "dpll" /\ pc = "return"
  /\ stack # << >> /\ ~ret /\ ~Top.first_branch
  /\ LET affected_literals == <<0 - Top.decision_literal>> \o Top.propagated_literals
     IN  DpllGo(UndoAssignment(DelKeys(problem, affected_literals, 1), affected_literals, 1),
                "return", Pop, FALSE, decision_level - 1)

(* solve() returns. *)
DpllFinish ==
  /\ engine = "dpll" /\ pc = "return"
  /\ stack = << >>
  /\ result' = IF ret THEN "SAT" ELSE "UNSAT"
  /\ pc' = "done"
  /\ UNCHANGED <<args, ple_affected, formula, ops, problem, engine, heuristic, stack, ret, decision_level,
                 implication_graph, learned_clauses, analysis, dpll_result>>

(***************************************************************************)
(* CDCL.  implication_graph is the dict in insertion order: a sequence of  *)
(* entries [literal, decision_level, antecedent], antecedent 0 for None.   *)
(***************************************************************************)
InGraph(g, lit) == \E k \in DOMAIN g : g[k].literal = lit
EntryOf(g, lit) == g[CHOOSE k \in DOMAIN g : g[k].literal = lit]

GraphPut(g, lit, level, antecedent) ==
  LET e == [literal |-> lit, decision_level |-> level, antecedent |-> antecedent]
  IN  IF InGraph(g, lit)
        THEN [k \in DOMAIN g |-> IF g[k].literal = lit THEN e ELSE g[k]]
        ELSE Append(g, e)

(* implication_graph.get(-lit, {}).get("decision_level") == decision_level *)
AtLevel(g, lit, level) == InGraph(g, 0 - lit) /\ EntryOf(g, 0 - lit).decision_level = level

(* implication_graph.get(-lit, {}).get("decision_level", 0) *)
LevelOrZero(g, lit) == IF InGraph(g, 0 - lit) THEN EntryOf(g, 0 - lit).decision_level ELSE 0

(* The clause the engine reads for an index: problem.clauses on the plain  *)
(* State, problem.original_clauses under TWL and TrueTWL.                  *)
ClauseRead_Watched(p, i) == p.clauses[i]

ClauseRead(p, i) == IF p.kind = "plain" THEN p.clauses[i] ELSE p.original_clauses[i]

(* get_contradicited_clauses().copy().pop() *)
PopChoices(p) ==
  IF p.kind = "twl" THEN {p.contradicted[Len(p.contradicted)]} ELSE Range(p.contradicted)

CdclGo(p, newpc, newlevel, newgraph, newanalysis) ==
  IF p.err THEN Raise(p)
  ELSE /\ problem' = p
       /\ pc' = newpc
       /\ decision_level' = newlevel
       /\ implication_graph' = newgraph
       /\ analysis' = newanalysis
       /\ UNCHANGED <<args, ple_affected, formula, ops, engine, heuristic, stack, ret, learned_clauses, result,
                      dpll_result>>

(* One round of CDCLSolver._unit_propagation_loop. *)
CdclPropagateClause(i) ==
  /\ engine = "cdcl" /\ pc = "propagate"
  /\ i \in problem.unitary
  /\   LET implied_literal == UnitLiteral(problem, i)
           p1 == assign(problem, implied_literal)
           g1 == GraphPut(implication_graph, implied_literal, decision_level, i)
       IN  IF implied_literal = 0 THEN Raise(problem)
           ELSE IF p1.err THEN Raise(p1)
           ELSE IF is_unsatisfiable(p1)
             THEN \E c \in PopChoices(p1) :
                    CdclGo(p1, "conflict", decision_level, g1,
                           [NoAnalysis EXCEPT !.conflict_clause = ClauseRead(p1, c)])
           ELSE CdclGo(p1, "propagate", decision_level, g1, analysis)

CdclUnitPropagate == \E i \in problem.unitary : CdclPropagateClause(i)

(* solve(): a conflict at decision level 0. *)
CdclUnsat ==
  /\ engine = "cdcl" /\ pc = "conflict"
  /\ decision_level = 0
  /\ result' = "UNSAT"
  /\ pc' = "done"
  /\ UNCHANGED <<args, ple_affected, formula, ops, problem, engine, heuristic, stack, ret, decision_level,
                 implication_graph, learned_clauses, analysis, dpll_result>>

(* _analyze_conflict up to its while loop. *)
CdclAnalyzeStart ==
  /\ engine = "cdcl" /\ pc = "conflict"
  /\ decision_level > 0
  /\ LET conflict_clause == analysis.conflict_clause
         AtCurrent(lit) == AtLevel(implication_graph, lit, decision_level)
     IN  CdclGo(problem, "analyze", decision_level, implication_graph,
                [conflict_clause |-> conflict_clause,
                 learned_clause |-> Range(conflict_clause),
                 seen_literals |-> {},
                 decision_level_literals |-> SelectSeq(conflict_clause, AtCurrent)])

(* The condition of the loop `while len(decision_level_literals) > 1`. *)
MoreToResolve_StopAtTwo(decision_level_literals) == Len(decision_level_literals) > 2

MoreToResolve(decision_level_literals) == Len(decision_level_literals) > 1

(* The list rebuilt for a popped decision literal (antecedent None): the   *)
(* literal first, the remaining literals after it.                         *)
Requeue_AtBack(lit_to_remove, rest) == rest \o <<lit_to_remove>>

Requeue(lit_to_remove, rest) == <<lit_to_remove>> \o rest

(* One iteration of `while len(decision_level_literals) > 1`. *)
CdclAnalyzeStep ==
  /\ engine = "cdcl" /\ pc = "analyze"
  /\ MoreToResolve(analysis.decision_level_literals)
  /\ LET dll == analysis.decision_level_literals
         lit_to_remove == dll[Len(dll)]
         rest == SubSeq(dll, 1, Len(dll) - 1)
         antecedent == EntryOf(implication_graph, 0 - lit_to_remove).antecedent
         antecedent_clause ==
           {l \in Range(ClauseRead(problem, antecedent)) :
              Abs(l) \notin analysis.seen_literals}
         learned_clause ==
           (analysis.learned_clause \cup antecedent_clause)
             \ {lit_to_remove, 0 - lit_to_remove}
         current == {l \in learned_clause :
                       AtLevel(implication_graph, l, decision_level)}
     IN  IF antecedent = 0
           THEN CdclGo(problem, "analyze", decision_level, implication_graph,
                       [analysis EXCEPT !.decision_level_literals =
                                           Requeue(lit_to_remove, rest)])
           ELSE \E order \in Perms(current) :
                  CdclGo(problem, "analyze", decision_level, implication_graph,
                         [analysis EXCEPT
                            !.learned_clause = learned_clause,
                            !.seen_literals = @ \cup {Abs(lit_to_remove)},
                            !.decision_level_literals = order])

(* _backtrack(level): the entries above the level, in insertion order. *)
RECURSIVE BacktrackState(_, _, _, _)
BacktrackState(p, g, k, level) ==
  IF k > Len(g) THEN p
  ELSE IF g[k].decision_level > level /\ ~LitUnassigned(p.assignments, g[k].literal)
    THEN BacktrackState(unassign(p, g[k].literal), g, k + 1, level)
  ELSE BacktrackState(p, g, k + 1, level)

(* The State as _backtrack(level) leaves it after the first n graph        *)
(* entries of its loop, each unassigned by a call of                       *)
(* update_satisfaction_map of its own.                                     *)
BacktrackPrefix(p, g, n, level) == BacktrackState(p, SubSeq(g, 1, n), 1, level)

KeepLevel(g, level) ==
  LET AtMost(e) == e.decision_level <= level IN SelectSeq(g, AtMost)

(* The backtrack level _analyze_conflict computes: the maximum, over the   *)
(* literals of learned_clause outside decision_level_literals, of the      *)
(* level of the negated literal's graph entry (0 without an entry), and 0  *)
(* by default.                                                             *)
OtherLiterals(an) ==
  {l \in an.learned_clause : ~InSeq(an.decision_level_literals, l)}

BacktrackLevel_FirstLevel(g, an) ==
  IF OtherLiterals(an) = {} THEN 0
  ELSE MinOf({LevelOrZero(g, l) : l \in OtherLiterals(an)})

BacktrackLevel(g, an) ==
  IF OtherLiterals(an) = {} THEN 0
  ELSE MaxOf({LevelOrZero(g, l) : l \in OtherLiterals(an)})

(* The end of _analyze_conflict and the rest of the conflict branch of     *)
(* solve(): learned_clauses.append, _backtrack, problem.add_clause.  The   *)
(* plain State has no add_clause (AttributeError).                         *)
CdclLearn ==
  /\ engine = "cdcl" /\ pc = "analyze"
  /\ ~MoreToResolve(analysis.decision_level_literals)
  /\ LET backtrack_level == BacktrackLevel(implication_graph, analysis)
         p1 == BacktrackState(problem, implication_graph, 1, backtrack_level)
         g1 == KeepLevel(implication_graph, backtrack_level)
     IN  \E learned_clause \in Perms(analysis.learned_clause) :
           /\ learned_clauses' = Append(learned_clauses, learned_clause)
           /\ IF p1.err \/ p1.kind = "plain"
                THEN /\ problem' = p1
                     /\ result' = "error"
                     /\ pc' = "done"
                     /\ decision_level' = IF p1.err THEN decision_level ELSE backtrack_level
                     /\ implication_graph' = IF p1.err THEN implication_graph ELSE g1
                ELSE LET p2 == add_clause(p1, learned_clause)
                     IN  /\ problem' = p2
                         /\ result' = IF p2.err THEN "error" ELSE result
                         /\ pc' = IF p2.err THEN "done" ELSE "propagate"
                         /\ decision_level' = backtrack_level
                         /\ implication_graph' = g1
           /\ UNCHANGED <<args, ple_affected, formula, ops, engine, heuristic, stack, ret, analysis, dpll_result>>

(* solve(): no conflict and is_satisfied(). *)
CdclSat ==
  /\ engine = "cdcl" /\ pc = "propagate"
  /\ NoUnitClause(problem)
  /\ is_satisfied(problem)
  /\ result' = "SAT"
  /\ pc' = "done"
  /\ UNCHANGED <<args, ple_affected, formula, ops, problem, engine, heuristic, stack, ret, decision_level,
                 implication_graph, learned_clauses, analysis, dpll_result>>

(* CDCLSolver._make_decision. *)
CdclDecide ==
  /\ engine = "cdcl" /\ pc = "propagate"
  /\ NoUnitClause(problem)
  /\ ~is_satisfied(problem)
  /\ \E r \in _choose_decision_literal(heuristic, problem) :
       IF r.raised THEN Raise(StateAfterHeuristic(heuristic, problem))
       ELSE CdclGo(assign(StateAfterHeuristic(heuristic, problem), r.value), "propagate",
                   decision_level + 1,
                   GraphPut(implication_graph, r.value, decision_level + 1, 0),
                   analysis)

(* DPLLSolver.solve() has returned or raised: CDCLSolver is built for the  *)
(* same clauses, State variant and heuristic.                              *)
StartCdcl ==
  /\ engine = "dpll" /\ pc = "done"
  /\ dpll_result' = result
  /\ problem' = initialize_computed_fields(problem.kind, formula)
  /\ engine' = "cdcl"
  /\ pc' = "propagate"
  /\ stack' = << >>
  /\ ret' = FALSE
  /\ decision_level' = 0
  /\ result' = "none"
  /\ UNCHANGED <<args, ple_affected, formula, ops, heuristic, implication_graph, learned_clauses, analysis>>

NextSolve ==
  \/ DpllEnter
  \/ DpllUnitPropagate
  \/ DpllDecide
  \/ DpllReturnTrue
  \/ DpllSecondBranch
  \/ DpllBacktrack
  \/ DpllFinish
  \/ StartCdcl
  \/ CdclUnitPropagate
  \/ CdclUnsat
  \/ CdclAnalyzeStart
  \/ CdclAnalyzeStep
  \/ CdclLearn
  \/ CdclSat
  \/ CdclDecide

SpecSolve == InitSolve /\ [][NextSolve]_vars

(* CDCLSolver(...).solve() on its own, from the State its constructor is   *)
(* given.  The `while` loop of _analyze_conflict runs on once entered, so  *)
(* its iteration is taken whenever it stays enabled.                       *)
InitCdcl ==
  /\ formula \in SolveFormulas
  /\ \E kind \in Kinds :
       /\ Constructible(kind, formula)
       /\ problem = initialize_computed_fields(kind, formula)
  /\ engine = "cdcl"
  /\ heuristic \in Heuristics
  /\ pc = "propagate"
  /\ args = ArgsOf(problem.kind, formula, heuristic)
  /\ stack = << >>
  /\ ret = FALSE
  /\ decision_level = 0
  /\ implication_graph = << >>
  /\ learned_clauses = << >>
  /\ analysis = NoAnalysis
  /\ result = "none"
  /\ dpll_result = "none"
  /\ ops = 0
  /\ ple_affected = {}

NextCdcl ==
  \/ CdclUnitPropagate
  \/ CdclUnsat
  \/ CdclAnalyzeStart
  \/ CdclAnalyzeStep
  \/ CdclLearn
  \/ CdclSat
  \/ CdclDecide

SpecCdclLive == InitCdcl /\ [][NextCdcl]_vars /\ WF_vars(CdclAnalyzeStep)

(* solve() is a running loop: it does not stand still before it returns   *)
(* or raises.  Running is the step relation of such a loop.  Unit          *)
(* propagation, the decision and the learning step always change the      *)
(* state (an assignment, the decision level, learned_clauses, or the end   *)
(* by an exception), so for them Running asks for their guard and a        *)
(* changed state; the other steps are taken as they are.                   *)
PropagateReady == engine = "cdcl" /\ pc = "propagate" /\ problem.unitary # {}

DecideReady ==
  engine = "cdcl" /\ pc = "propagate" /\ NoUnitClause(problem) /\ ~is_satisfied(problem)

AnalysisOver ==
  engine = "cdcl" /\ pc = "analyze" /\ ~MoreToResolve(analysis.decision_level_literals)

Halt ==
  /\ pc' = "done"
  /\ result' = "error"
  /\ UNCHANGED <<args, ple_affected, formula, problem, engine, heuristic, stack, ret,
                 decision_level, implication_graph, learned_clauses, analysis,
                 dpll_result, ops>>

Running ==
  \/ CdclUnsat
  \/ CdclAnalyzeStart
  \/ CdclAnalyzeStep
  \/ CdclSat
  \/ /\ PropagateReady \/ DecideReady \/ AnalysisOver
     /\ Halt \/ vars' # vars

SpecCdclRun == InitCdcl /\ [][NextCdcl]_vars /\ WF_vars(Running)

(***************************************************************************)
(* Reading and construction.  ClausesModel validates the clauses as read   *)
(* (validate_clauses strips the trailing 0 of each clause), then num_vars  *)
(* and num_clauses against the stripped clauses; validate_num_vars counts  *)
(* the distinct abs(lit), a 0 inside a clause included.  The constructor   *)
(* shared by DPLLSolver and CDCLSolver then builds the State (twl is       *)
(* tested before true_twl) and looks the heuristic name up.                *)
(***************************************************************************)
MaxRawLit == 2
MaxRawLen == 2
MaxRawClauses == 2

RawLits == (0 - MaxRawLit)..MaxRawLit
RawClauses == UNION {[1..n -> RawLits] : n \in 0..MaxRawLen}
RawFormulas == UNION {[1..n -> RawClauses] : n \in 0..MaxRawClauses}
UnknownNames == {"foo", ""}

validate_clauses_raises(clauses) ==
  \E i \in DOMAIN clauses :
    \/ clauses[i] = << >>
    \/ clauses[i][Len(clauses[i])] # 0

validate_clauses(clauses) ==
  [i \in DOMAIN clauses |-> SubSeq(clauses[i], 1, Len(clauses[i]) - 1)]

validate_num_clauses_raises(num_clauses, clauses) == num_clauses # Len(clauses)

validate_num_vars_raises(num_vars, clauses) == Cardinality(VarsOf(clauses)) # num_vars

ClausesModel(a) ==
  IF validate_clauses_raises(a.clauses) THEN [raised |-> TRUE, clauses |-> << >>]
  ELSE LET stripped == validate_clauses(a.clauses)
       IN  [raised  |-> \/ validate_num_vars_raises(a.num_vars, stripped)
                        \/ validate_num_clauses_raises(a.num_clauses, stripped),
            clauses |-> stripped]

(* The State class the constructor picks. *)
ProblemClass(twl, true_twl) ==
  IF twl THEN "twl" ELSE IF true_twl THEN "true_twl" ELSE "plain"

(* The State constructors raise ValueError on an empty clause list, the    *)
(* watched variants also on an empty clause.                               *)
StateRaises(kind, cnf) == cnf = << >> \/ ~Constructible(kind, cnf)

(* heuristic_map lookup of the pydantic constructor: an unknown name       *)
(* raises ValueError.                                                      *)
SelectHeuristic(name) ==
  [raised |-> name \notin Heuristics, name |-> name]

(* The constructor of Solver/dpll_solver.py: self.heuristics.get(name,     *)
(* default_heuristic), and heuristic_name 'default' whenever the function  *)
(* chosen is default_heuristic.                                            *)
heuristics_get(name) ==
  [raised |-> FALSE, name |-> IF name \in Heuristics THEN name ELSE "default"]

(* SATProblem of sat_problem.py: the clauses, no assignment, nothing       *)
(* satisfied; it keeps no other bookkeeping.                               *)
LegacyState(cnf) ==
  [initialize_computed_fields("plain", cnf) EXCEPT !.kind = "legacy"]

NoState == [initialize_computed_fields("plain", << >>) EXCEPT !.kind = "none"]

InitConstruct ==
  /\ args \in [clauses     : RawFormulas,
               num_vars    : 0..MaxRawLit,
               num_clauses : 0..MaxRawClauses,
               twl         : BOOLEAN,
               true_twl    : BOOLEAN,
               heuristic   : Heuristics \cup UnknownNames]
  /\ formula = << >>
  /\ problem = NoState
  /\ engine = "new"
  /\ heuristic = "unset"
  /\ pc = "read"
  /\ stack = << >>
  /\ ret = FALSE
  /\ decision_level = 0
  /\ implication_graph = << >>
  /\ learned_clauses = << >>
  /\ analysis = NoAnalysis
  /\ result = "none"
  /\ dpll_result = "none"
  /\ ops = 0
  /\ ple_affected = {}

ReadClauses ==
  /\ engine = "new"
  /\ pc = "read"
  /\ LET m == ClausesModel(args)
     IN  IF m.raised
           THEN /\ result' = "error"
                /\ pc' = "done"
                /\ UNCHANGED formula
           ELSE /\ formula' = m.clauses
                /\ pc' = "construct"
                /\ UNCHANGED result
  /\ UNCHANGED <<args, ple_affected, problem, engine, heuristic, stack, ret, decision_level,
                 implication_graph, learned_clauses, analysis, dpll_result, ops>>

Construct ==
  /\ engine = "new"
  /\ pc = "construct"
  /\ LET kind == ProblemClass(args.twl, args.true_twl)
         h == SelectHeuristic(args.heuristic)
     IN  IF StateRaises(kind, formula) \/ h.raised
           THEN /\ result' = "error"
                /\ pc' = "done"
                /\ UNCHANGED <<problem, engine, heuristic>>
           ELSE /\ problem' = initialize_computed_fields(kind, formula)
                /\ heuristic' = h.name
                /\ \E class \in {"dpll", "cdcl"} :
                     /\ engine' = class
                     /\ pc' = IF class = "dpll" THEN "entry" ELSE "propagate"
                /\ UNCHANGED result
  /\ UNCHANGED <<args, ple_affected, formula, stack, ret, decision_level, implication_graph,
                 learned_clauses, analysis, dpll_result, ops>>

(* DPLLSolver.__init__ of Solver/dpll_solver.py: it is handed a built     *)
(* State, knows the flag twl but no parameter true_twl (a TypeError of     *)
(* the call), and never rejects a heuristic name.                          *)
ConstructLegacy ==
  /\ engine = "new"
  /\ pc = "construct"
  /\ IF args.true_twl
       THEN /\ result' = "error"
            /\ pc' = "done"
            /\ UNCHANGED <<problem, engine, heuristic>>
       ELSE /\ problem' = LegacyState(formula)
            /\ heuristic' = heuristics_get(args.heuristic).name
            /\ engine' = "legacy"
            /\ pc' = "entry"
            /\ UNCHANGED result
  /\ UNCHANGED <<args, ple_affected, formula, stack, ret, decision_level, implication_graph,
                 learned_clauses, analysis, dpll_result, ops>>

NextConstruct == ReadClauses \/ Construct \/ ConstructLegacy

SpecConstruct == InitConstruct /\ [][NextConstruct]_vars

(***************************************************************************)
(* The first DPLLSolver (dpll_solver.py over the SATProblem of             *)
(* sat_problem.py), the engine that carries pure-literal elimination.  Its *)
(* State is the clauses, the assignments and a satisfaction map that       *)
(* update_satisfaction_map recomputes from the assignments; an absent key  *)
(* of `assignments` is the value 0.  solve() runs the elimination loop     *)
(* when use_pure_literal is set and then dpll_recursive_with_logging.      *)
(***************************************************************************)
PleScenarios ==
  { << <<1, 3>>, <<-2, 3>>, <<2, 4>>, <<-4>> >>,
    << <<1, 2>>, <<-2, 3>>, <<-2, -3>> >>,
    << <<3, 1>>, <<1, 2>>, <<-1, -2>> >>,
    << <<3>>, <<1, 2>>, <<-1, 2>>, <<1, -2>>, <<-1, -2>> >> }

PleFormulas == UNION {FormulasOfLen(n) : n \in 1..MaxSolveClauses} \cup PleScenarios

update_satisfaction_map_all(p) ==
  [p EXCEPT !.satisfaction_map =
     [i \in DOMAIN p.clauses |-> ClauseTrue(p.assignments, p.clauses[i])]]

legacy_is_satisfied(p) == \A i \in DOMAIN p.clauses : p.satisfaction_map[i]

legacy_is_unsatisfiable(p) ==
  \E i \in DOMAIN p.clauses :
    CountUnassigned(p.assignments, p.clauses[i]) = 0 /\ ~p.satisfaction_map[i]

(* The clauses whose literals a pass counts: those the map does not mark   *)
(* satisfied.                                                              *)
CountedClauses(p) == {i \in DOMAIN p.clauses : ~p.satisfaction_map[i]}

literal_counts(p) ==
  UNION {Range(p.clauses[i]) : i \in CountedClauses(p)}

(* One pass: every variable counted with one polarity only is written      *)
(* into `assignments`, whatever it held; the map is not touched.           *)
PureLiterals_AnyPolarity(counted) == counted

PureLiterals(counted) == {l \in counted : (0 - l) \notin counted}

pure_literal_elimination(p) ==
  LET counted == literal_counts(p)
      pure == PureLiterals(counted)
  IN  [changed |-> pure # {},
       affected_literals |-> pure,
       problem |-> [p EXCEPT !.assignments =
                      [v \in DOMAIN @ |-> IF v \in pure THEN 1
                                          ELSE IF (0 - v) \in pure THEN -1
                                          ELSE @[v]]]]

(* `if not elimination_occurred: break` *)
PleContinues_Once(r) == FALSE

PleContinues(r) == r.changed

LegacyFrame == [var |-> 0, propagated_literals |-> << >>, first_branch |-> TRUE]

InitPle ==
  /\ formula \in PleFormulas
  /\ args \in {[clauses |-> formula, use_pure_literal |-> b] : b \in BOOLEAN}
  /\ problem = LegacyState(formula)
  /\ engine = "legacy"
  /\ heuristic = "default"
  /\ pc = "solve"
  /\ stack = << >>
  /\ ret = FALSE
  /\ decision_level = 0
  /\ implication_graph = << >>
  /\ learned_clauses = << >>
  /\ analysis = NoAnalysis
  /\ result = "none"
  /\ dpll_result = "none"
  /\ ops = 0
  /\ ple_affected = {}

LegacyGo(p, to, frames, value, level) ==
  /\ problem' = p
  /\ pc' = to
  /\ stack' = frames
  /\ ret' = value
  /\ decision_level' = level
  /\ UNCHANGED <<args, ple_affected, formula, engine, heuristic, implication_graph,
                 learned_clauses, analysis, result, dpll_result, ops>>

(* solve(): `if self.use_pure_literal` *)
LegacySolve ==
  /\ engine = "legacy" /\ pc = "solve"
  /\ LegacyGo(problem, IF args.use_pure_literal THEN "ple" ELSE "entry",
              stack, ret, decision_level)

(* One iteration of the `while True` loop of solve(). *)
PlePass ==
  /\ engine = "legacy" /\ pc = "ple"
  /\ LET r == pure_literal_elimination(problem)
     IN  /\ ple_affected' = r.affected_literals
         /\ IF PleContinues(r)
              THEN /\ problem' = update_satisfaction_map_all(r.problem)
                   /\ pc' = "ple"
              ELSE /\ problem' = r.problem
                   /\ pc' = "entry"
  /\ UNCHANGED <<args, formula, engine, heuristic, stack, ret, decision_level,
                 implication_graph, learned_clauses, analysis, result,
                 dpll_result, ops>>

(* dpll_recursive_with_logging: the base cases. *)
LegacyEntry ==
  /\ engine = "legacy" /\ pc = "entry"
  /\ IF legacy_is_satisfied(problem)
       THEN LegacyGo(problem, "return", stack, TRUE, decision_level)
     ELSE IF legacy_is_unsatisfiable(problem)
       THEN LegacyGo(problem, "return", stack, FALSE, decision_level)
     ELSE LegacyGo(problem, "propagate", <<LegacyFrame>> \o stack, ret, decision_level)

(* unit_propagation: the first clause not marked satisfied with exactly    *)
(* one literal left, then the tests of the propagation loop.  On a         *)
(* conflict the propagated variables are deleted and the map is left as    *)
(* it is.                                                                  *)
LegacyUnits(p) ==
  {i \in DOMAIN p.clauses :
     ~p.satisfaction_map[i] /\ CountUnassigned(p.assignments, p.clauses[i]) = 1}

FirstUnassigned(p, c) ==
  c[MinOf({j \in DOMAIN c : LitUnassigned(p.assignments, c[j])})]

DeleteAll(p, vs) ==
  [p EXCEPT !.assignments = [v \in DOMAIN @ |-> IF v \in vs THEN 0 ELSE @[v]]]

LegacyPropagate ==
  /\ engine = "legacy" /\ pc = "propagate"
  /\ LegacyUnits(problem) # {}
  /\ LET i == MinOf(LegacyUnits(problem))
         unit_literal == FirstUnassigned(problem, problem.clauses[i])
         q == update_satisfaction_map_all(
                [problem EXCEPT !.assignments[Abs(unit_literal)] = Sign(unit_literal)])
         f == stack[1]
         propagated == Append(f.propagated_literals, unit_literal)
     IN  IF legacy_is_satisfied(q)
           THEN LegacyGo(q, "return", Tail(stack), TRUE, decision_level)
         ELSE IF legacy_is_unsatisfiable(q)
           THEN LegacyGo(DeleteAll(q, {Abs(propagated[k]) : k \in DOMAIN propagated}),
                         "return", Tail(stack), FALSE, decision_level)
         ELSE LegacyGo(q, "propagate",
                       <<[f EXCEPT !.propagated_literals = propagated]>> \o Tail(stack),
                       ret, decision_level)

(* No unit clause is left: the first unassigned literal of the clauses not *)
(* marked satisfied is decided True, and the first recursive call is made. *)
LegacyOpen(p) ==
  {i \in DOMAIN p.clauses :
     ~p.satisfaction_map[i] /\ CountUnassigned(p.assignments, p.clauses[i]) > 0}

LegacyDecide ==
  /\ engine = "legacy" /\ pc = "propagate"
  /\ LegacyUnits(problem) = {}
  /\ IF LegacyOpen(problem) = {}
       THEN LegacyGo(problem, "return", Tail(stack), legacy_is_satisfied(problem),
                     decision_level)
     ELSE LET i == MinOf(LegacyOpen(problem))
              var == Abs(FirstUnassigned(problem, problem.clauses[i]))
              q == update_satisfaction_map_all([problem EXCEPT !.assignments[var] = 1])
          IN  LegacyGo(q, "entry", <<[stack[1] EXCEPT !.var = var]>> \o Tail(stack),
                       ret, decision_level + 1)

(* A recursive call came back. *)
LegacyReturn ==
  /\ engine = "legacy" /\ pc = "return"
  /\ stack # << >>
  /\ LET f == stack[1]
     IN  IF ret
           THEN LegacyGo(problem, "return", Tail(stack), TRUE, decision_level)
         ELSE IF f.first_branch
           THEN LegacyGo(update_satisfaction_map_all(
                           [problem EXCEPT !.assignments[f.var] = -1]),
                         "entry", <<[f EXCEPT !.first_branch = FALSE]>> \o Tail(stack),
                         ret, decision_level)
         ELSE LegacyGo(update_satisfaction_map_all(
                         DeleteAll(problem, {f.var} \cup
                           {Abs(f.propagated_literals[k]) : k \in DOMAIN f.propagated_literals})),
                       "return", Tail(stack), FALSE, decision_level - 1)

LegacyDone ==
  /\ engine = "legacy" /\ pc = "return"
  /\ stack = << >>
  /\ result' = IF ret THEN "SAT" ELSE "UNSAT"
  /\ pc' = "done"
  /\ UNCHANGED <<args, ple_affected, formula, problem, engine, heuristic, stack, ret,
                 decision_level, implication_graph, learned_clauses, analysis,
                 dpll_result, ops>>

NextPle ==
  \/ LegacySolve
  \/ PlePass
  \/ LegacyEntry
  \/ LegacyPropagate
  \/ LegacyDecide
  \/ LegacyReturn
  \/ LegacyDone

SpecPle == InitPle /\ [][NextPle]_vars

(* The loop of solve() runs on once entered. *)
SpecPleLive == InitPle /\ [][NextPle]_vars /\ WF_vars(PlePass)

(***************************************************************************)
(* CLAIMS                                                                  *)
(***************************************************************************)
Clauses == DOMAIN problem.clauses
TrueIn(i) == ClauseTrue(problem.assignments, problem.clauses[i])
UnassignedIn(i) == CountUnassigned(problem.assignments, problem.clauses[i])
SomeAssigned == \E v \in DOMAIN problem.assignments : problem.assignments[v] # 0

(* Brute force over the total assignments of the formula's variables. *)
Satisfies(a, cnf) == \A i \in DOMAIN cnf : ClauseTrue(a, cnf[i])
Satisfiable(cnf) == \E a \in [VarsOf(cnf) -> {1, -1}] : Satisfies(a, cnf)
Ended(e) == engine = e /\ pc = "done"

(* C1: whenever DPLLSolver.solve() returns True, the final assignments,    *)
(* evaluated from scratch, make a literal true in every clause of the      *)
(* formula.                                                                *)
C1_DpllModelSatisfies ==
  (Ended("dpll") /\ result = "SAT") => Satisfies(problem.assignments, formula)

(* C2: DPLLSolver.solve() returns True if and only if some total           *)
(* assignment satisfies every clause.                                      *)
C2_DpllVerdictMatchesBruteForce ==
  Ended("dpll") => ((result = "SAT") = Satisfiable(formula))

(* C3: for the same formula and State variant, DPLLSolver.solve() and      *)
(* CDCLSolver.solve() return the same SAT/UNSAT verdict.                   *)
C3_EnginesAgree ==
  Ended("cdcl") => (result \in {"SAT", "UNSAT"} /\ result = dpll_result)

(* C4: when CDCLSolver.solve() returns True the final assignments satisfy  *)
(* every clause of the formula; when it returns False the formula has no   *)
(* satisfying assignment.                                                  *)
C4_CdclVerdictSound ==
  Ended("cdcl") =>
    /\ result = "SAT" => Satisfies(problem.assignments, formula)
    /\ result = "UNSAT" => ~Satisfiable(formula)

(* C5: on the plain State, after any sequence of assign, unassign and      *)
(* flip, satisfaction_map[i] is true iff some literal of clause i is       *)
(* assigned true, and iff num_satisfying[i] > 0.                           *)
C5_SatisfactionMapAgrees ==
  problem.kind = "plain" =>
    \A i \in Clauses :
      /\ problem.satisfaction_map[i] = TrueIn(i)
      /\ problem.satisfaction_map[i] = (problem.num_satisfying[i] > 0)

(* A clause with two true literals beside a clause with a false literal    *)
(* and no true one.                                                        *)
C5_Witness ==
  /\ problem.kind = "plain"
  /\ \E i, j \in Clauses :
       /\ problem.num_satisfying[i] = 2
       /\ ~problem.satisfaction_map[j]
       /\ UnassignedIn(j) < Len(problem.clauses[j])

(* C6: on the plain State, num_unassigned[i] is the number of literals of  *)
(* clause i whose variable is unassigned, hence within 0..|clause i|.      *)
C6_NumUnassignedAgrees ==
  problem.kind = "plain" =>
    \A i \in Clauses :
      /\ problem.num_unassigned[i] = UnassignedIn(i)
      /\ problem.num_unassigned[i] \in 0..Len(problem.clauses[i])

C6_Witness ==
  /\ problem.kind = "plain"
  /\ \E i, j \in Clauses :
       /\ Len(problem.clauses[i]) = 3 /\ problem.num_unassigned[i] = 1
       /\ problem.num_unassigned[j] = 0

(* C7: on the plain State, clause i is in `unitary` iff it is not          *)
(* satisfied and has exactly one unassigned literal.                       *)
C7_UnitaryIffUnit ==
  problem.kind = "plain" =>
    \A i \in Clauses :
      (i \in problem.unitary) = (~problem.satisfaction_map[i] /\ UnassignedIn(i) = 1)

(* C8: on the plain State, clause i is in `contradicted` iff it is not     *)
(* satisfied and has no unassigned literal.                                *)
C8_ContradictedIffFalsified ==
  problem.kind = "plain" =>
    \A i \in Clauses :
      InSeq(problem.contradicted, i) = (~problem.satisfaction_map[i] /\ UnassignedIn(i) = 0)

C8_Witness ==
  /\ problem.kind = "plain"
  /\ \E i, j \in Clauses :
       /\ InSeq(problem.contradicted, i) /\ Len(problem.clauses[i]) >= 2
       /\ ~InSeq(problem.contradicted, j) /\ UnassignedIn(j) = 0

(* The literals assign() may be called with, and the State after           *)
(* assign(l) followed by unassign(l).                                      *)
Assignable == {l \in KeysOfState : LitUnassigned(problem.assignments, l)}
RoundTrip(l) == unassign(assign(problem, l), l)

(* C9: on the plain State, assign(l) followed by unassign(l) leaves        *)
(* satisfaction_map, num_satisfying, num_unassigned, contradicted and      *)
(* unitary as they were.                                                   *)
C9_RoundTripPlain ==
  problem.kind = "plain" =>
    \A l \in Assignable :
      /\ RoundTrip(l).satisfaction_map = problem.satisfaction_map
      /\ RoundTrip(l).num_satisfying = problem.num_satisfying
      /\ RoundTrip(l).num_unassigned = problem.num_unassigned
      /\ Range(RoundTrip(l).contradicted) = Range(problem.contradicted)
      /\ RoundTrip(l).unitary = problem.unitary

(* An assign, in a state that already holds assignments, that satisfies    *)
(* one clause and contradicts another.                                     *)
C9_Witness ==
  /\ problem.kind = "plain"
  /\ SomeAssigned
  /\ \E l \in Assignable :
       /\ assign(problem, l).contradicted # problem.contradicted
       /\ assign(problem, l).satisfaction_map # problem.satisfaction_map

C11_WatchedUnassignedCount ==
  (problem.kind \in {"twl", "true_twl"} /\ ~problem.err) =>
    \A i \in Clauses : problem.num_unassigned[i] = UnassignedIn(i)

(* C12: under TWL, in every state the engine reaches after a mutator       *)
(* returns, every original clause whose literals are all false is in       *)
(* `contradicted`, and every original clause with no true literal and      *)
(* exactly one unassigned literal is in `unitary`.  The states reached     *)
(* are those between the engine's steps and, inside a backjump, those      *)
(* between the calls _backtrack makes.                                     *)
OrigFalsified(p, i) ==
  \A j \in DOMAIN p.original_clauses[i] :
    LitFalse(p.assignments, p.original_clauses[i][j])

OrigUnit(p, i) ==
  /\ ~ClauseTrue(p.assignments, p.original_clauses[i])
  /\ CountUnassigned(p.assignments, p.original_clauses[i]) = 1

DetectionComplete(p) ==
  \A i \in DOMAIN p.original_clauses :
    /\ OrigFalsified(p, i) => InSeq(p.contradicted, i)
    /\ OrigUnit(p, i) => i \in p.unitary

LearnReady ==
  engine = "cdcl" /\ pc = "analyze" /\ ~MoreToResolve(analysis.decision_level_literals)

DuringBacktrack(n) ==
  BacktrackPrefix(problem, implication_graph, n,
                  BacktrackLevel(implication_graph, analysis))

C12_TwlDetectionComplete ==
  (problem.kind = "twl" /\ ~problem.err) =>
    /\ DetectionComplete(problem)
    /\ LearnReady =>
         \A n \in 0..Len(implication_graph) :
           ~DuringBacktrack(n).err => DetectionComplete(DuringBacktrack(n))

C14_TrueTwlSatisfiedIffWatchTrue ==
  (problem.kind = "true_twl" /\ ~problem.err) =>
    \A i \in Clauses : problem.satisfaction_map[i] = TrueIn(i)

(* A step of add_clause that returned: the State holds one more clause.    *)
AddClauseStep ==
  /\ Len(problem'.clauses) = Len(problem.clauses) + 1
  /\ ~problem'.err

(* The entries of the clause added last, against the assignment: the       *)
(* clause is satisfied by a true literal (any literal of the clause under  *)
(* TWL, a watched one under TrueTWL), num_satisfying counts those          *)
(* literals, num_unassigned counts the unassigned watched literals, and    *)
(* the clause is in `contradicted` (`unitary`) exactly when it is not      *)
(* satisfied and has no (exactly one) unassigned watched literal.          *)
NewClauseAgrees(q) ==
  LET n == Len(q.clauses)
      watched == q.clauses[n]
      counted == IF q.kind = "twl" THEN q.original_clauses[n] ELSE watched
      a == q.assignments
  IN  /\ q.satisfaction_map[n] = ClauseTrue(a, counted)
      /\ q.num_satisfying[n] = CountTrue(a, counted)
      /\ q.num_unassigned[n] = CountUnassigned(a, watched)
      /\ InSeq(q.contradicted, n) =
           (~ClauseTrue(a, counted) /\ CountUnassigned(a, watched) = 0)
      /\ (n \in q.unitary) =
           (~ClauseTrue(a, counted) /\ CountUnassigned(a, watched) = 1)

(* C15: after add_clause(new_clause) called in a state with a non-empty    *)
(* assignment, the new clause's satisfaction_map entry, num_satisfying,    *)
(* num_unassigned and its membership in `contradicted` and `unitary`       *)
(* agree with their definitions under the current assignment.              *)
C15_NewClauseAgrees ==
  [][(AddClauseStep /\ SomeAssigned) => NewClauseAgrees(problem')]_vars

(* C16: add_clause(new_clause) leaves `assignments` unchanged and, for     *)
(* every clause index that existed before the call, leaves unchanged the   *)
(* watched literals, the satisfaction_map entry, num_satisfying,           *)
(* num_unassigned and the membership in `contradicted` and `unitary`.      *)
FrameKept(p, q) ==
  /\ q.assignments = p.assignments
  /\ \A i \in DOMAIN p.clauses :
       /\ q.clauses[i] = p.clauses[i]
       /\ q.satisfaction_map[i] = p.satisfaction_map[i]
       /\ q.num_satisfying[i] = p.num_satisfying[i]
       /\ q.num_unassigned[i] = p.num_unassigned[i]
       /\ InSeq(q.contradicted, i) = InSeq(p.contradicted, i)
       /\ (i \in q.unitary) = (i \in p.unitary)

C16_AddClauseFrame ==
  [][AddClauseStep => FrameKept(problem, problem')]_vars

(* C17: the CDCL engine works with the plain State: with twl=False and     *)
(* true_twl=False, solve() handles every conflict above decision level 0   *)
(* by learning, backjumping and adding the learned clause to the State,    *)
(* and ends by returning True or False.                                    *)
C17_CdclOnPlainState ==
  (Ended("cdcl") /\ problem.kind = "plain") => result \in {"SAT", "UNSAT"}

(* C18: every clause produced by the 1-UIP conflict analysis holds         *)
(* exactly one literal whose negation was assigned at the decision level   *)
(* current at the time of the conflict.  The analysis has produced its     *)
(* clause when its loop has ended (LearnReady).                            *)
CurrentLevelLiterals ==
  {l \in analysis.learned_clause :
     /\ InGraph(implication_graph, 0 - l)
     /\ EntryOf(implication_graph, 0 - l).decision_level = decision_level}

C18_OneCurrentLevelLiteral ==
  LearnReady => Cardinality(CurrentLevelLiterals) = 1

(* A clause produced after at least one resolution step, with literals of  *)
(* lower levels beside the current-level one.                              *)
C18_Witness ==
  /\ LearnReady
  /\ analysis.seen_literals # {}
  /\ Cardinality(analysis.learned_clause) >= 2
  /\ Cardinality(CurrentLevelLiterals) = 1

(* The conflict branch of solve() above level 0 that ends with the learned *)
(* clause added: the step from the end of the analysis to the next         *)
(* propagation.                                                            *)
LearnStep == LearnReady /\ pc' = "propagate"

(* C19: after a CDCL conflict above level 0, once the engine has           *)
(* backjumped and added the learned clause, the learned clause is unit     *)
(* (no true literal, exactly one unassigned literal, the asserting one),   *)
(* and the next propagation assigns the asserting literal with the         *)
(* learned clause's index as antecedent: the learned clause is in          *)
(* `unitary`, and whichever clause _unit_propagation takes from `unitary`  *)
(* is the learned clause, giving the asserting literal.                    *)
C19_LearnedClausePropagates ==
  [][LearnStep =>
       LET n == Len(problem'.original_clauses)
           learned_clause == problem'.original_clauses[n]
           unassigned == {l \in Range(learned_clause) :
                            LitUnassigned(problem'.assignments, l)}
       IN  /\ ~ClauseTrue(problem'.assignments, learned_clause)
           /\ Cardinality(unassigned) = 1
           /\ unassigned = CurrentLevelLiterals
           /\ n \in problem'.unitary
           /\ \A i \in problem'.unitary :
                i = n /\ {UnitLiteral(problem', i)} = unassigned]_vars

(* C20: the backjump level computed by _analyze_conflict is the maximum    *)
(* decision level among the literals of the learned clause other than the  *)
(* single current-level literal, and 0 when there is no other literal.     *)
(* A literal's decision level is that of its negation's graph entry (0     *)
(* without an entry).                                                      *)
OtherLevels ==
  {LevelOrZero(implication_graph, l) :
     l \in analysis.learned_clause \ CurrentLevelLiterals}

C20_BackjumpLevel ==
  LearnReady =>
    BacktrackLevel(implication_graph, analysis) =
      (IF OtherLevels = {} THEN 0
       ELSE CHOOSE m \in OtherLevels : \A k \in OtherLevels : k <= m)

(* A learned clause whose other literals sit at two different levels, so   *)
(* that the maximum differs from the minimum.                              *)
C20_Witness ==
  /\ LearnReady
  /\ Cardinality(OtherLevels) >= 2
  /\ BacktrackLevel(implication_graph, analysis) > 0

(* The State and the graph as _backtrack leaves them when the conflict     *)
(* branch of solve() calls it with the level the analysis computed.        *)
BackjumpLevel == BacktrackLevel(implication_graph, analysis)
AfterBacktrack == BacktrackState(problem, implication_graph, 1, BackjumpLevel)
RemovedEntries ==
  {k \in DOMAIN implication_graph : implication_graph[k].decision_level > BackjumpLevel}
KeptEntries ==
  {k \in DOMAIN implication_graph : implication_graph[k].decision_level <= BackjumpLevel}

(* The bookkeeping of the State p holds variable v as unassigned: every    *)
(* clause with a literal of v among its entries counts its unassigned      *)
(* entries as the assignment gives them.                                   *)
UnassignedInBookkeeping(p, v) ==
  \A i \in DOMAIN p.clauses :
    (\E j \in DOMAIN p.clauses[i] : Abs(p.clauses[i][j]) = v) =>
      p.num_unassigned[i] = CountUnassigned(p.assignments, p.clauses[i])

(* C21: immediately after CDCL _backtrack(level) returns, the graph has    *)
(* no entry above `level`, every variable whose entry was removed is       *)
(* unassigned in `assignments` and in the State bookkeeping, every entry   *)
(* at or below `level` is still present and assigned, and decision_level   *)
(* equals `level`.                                                         *)
C21_BacktrackLeavesLevel ==
  [][(LearnReady /\ ~AfterBacktrack.err) =>
       /\ \A k \in DOMAIN implication_graph' :
            implication_graph'[k].decision_level <= BackjumpLevel
       /\ \A k \in RemovedEntries :
            /\ AfterBacktrack.assignments[Abs(implication_graph[k].literal)] = 0
            /\ UnassignedInBookkeeping(AfterBacktrack, Abs(implication_graph[k].literal))
       /\ \A k \in KeptEntries :
            /\ InGraph(implication_graph', implication_graph[k].literal)
            /\ LitTrue(AfterBacktrack.assignments, implication_graph[k].literal)
       /\ decision_level' = BackjumpLevel]_vars

(* C22: the 1-UIP loop of _analyze_conflict terminates for every conflict  *)
(* clause the engine passes to it: an analysis that has started always     *)
(* reaches the end of its loop, and there at most one literal of the       *)
(* learned clause is at the current decision level.                        *)
Analysing == engine = "cdcl" /\ pc = "analyze"
C22_AnalysisTerminates ==
  /\ Analysing ~> LearnReady
  /\ [](LearnReady => Cardinality(CurrentLevelLiterals) <= 1)
C22_Witness ==
  /\ LearnReady
  /\ analysis.seen_literals # {}
  /\ \E l \in analysis.learned_clause :
       /\ AtLevel(implication_graph, l, decision_level)
       /\ EntryOf(implication_graph, 0 - l).antecedent = 0

(* C23: in DPLL and CDCL unit propagation, when several clauses are        *)
(* unitary at once, the step taken is the propagation of the clause with   *)
(* the smallest index.                                                     *)
SeveralUnitary == Cardinality(problem.unitary) > 1
C23_SmallestIndexFirst ==
  [][SeveralUnitary =>
       /\ DpllUnitPropagate => DpllPropagateClause(MinOf(problem.unitary))
       /\ CdclUnitPropagate => CdclPropagateClause(MinOf(problem.unitary))]_vars

(* C24: every decision of DPLL and of CDCL (the heuristic call followed by *)
(* the decision assignment, which raises decision_level by one) is taken   *)
(* in a state in which `unitary` is empty, `contradicted` is empty and     *)
(* is_satisfied() is false.                                                *)
DecisionStep == (DpllDecide \/ CdclDecide) /\ decision_level' = decision_level + 1
Saturated ==
  /\ problem.unitary = {}
  /\ problem.contradicted = << >>
  /\ ~is_satisfied(problem)
C24_DecideWhenSaturated == [][DecisionStep => Saturated]_vars

(* A CDCL decision taken after a clause was learned, and a DPLL decision   *)
(* taken below another one after propagation.                              *)
C24_Witness ==
  \/ /\ engine = "cdcl" /\ pc = "propagate" /\ learned_clauses # << >>
     /\ \E k \in DOMAIN implication_graph :
          /\ implication_graph[k].antecedent = 0
          /\ implication_graph[k].decision_level = decision_level
     /\ decision_level >= 1
  \/ /\ engine = "dpll" /\ pc = "entry" /\ decision_level >= 2
     /\ \E k \in DOMAIN stack : stack[k].propagated_literals # << >>

(* C25: whenever a frame of _dpll_recursive returns False, the State       *)
(* (assignments and all bookkeeping) and decision_level are what they were *)
(* when the frame was entered.                                             *)
FrameReturnsFalse == engine = "dpll" /\ pc' = "return" /\ ~ret'
SameState(p, q) ==
  /\ p.assignments = q.assignments
  /\ p.clauses = q.clauses
  /\ p.satisfaction_map = q.satisfaction_map
  /\ p.num_satisfying = q.num_satisfying
  /\ p.num_unassigned = q.num_unassigned
  /\ Range(p.contradicted) = Range(q.contradicted)
  /\ p.unitary = q.unitary
  /\ p.clauses_by_watched_literal = q.clauses_by_watched_literal
C25_FalseFrameRestores ==
  [][/\ (FrameReturnsFalse /\ pc = "entry") =>
          SameState(problem', problem) /\ decision_level' = decision_level
     /\ (FrameReturnsFalse /\ Len(stack') < Len(stack)) =>
          SameState(problem', Top.entry_problem) /\ decision_level' = Top.entry_level]_vars

(* C26: on a State in which no unsatisfied clause has an unassigned        *)
(* literal, each heuristic (default, dlcs, dlis, moms, and the randomized  *)
(* variants) returns the empty result and does not raise.                  *)
NoOpenLiteral(p) == OpenOccurrences(p) = {}
C26_EmptyResultNoRaise ==
  NoOpenLiteral(problem) =>
    \A name \in Heuristics : heuristic_function(name, problem) = {Returned(0)}

(* C27: in the Decide step of DPLL, when the heuristic returns the empty   *)
(* result, the frame returns is_satisfied(): no assignment is made,        *)
(* decision_level does not change and nothing is raised.                   *)
AtDecide == engine = "dpll" /\ pc = "bcp" /\ NoUnitClause(problem)
HeuristicEmpty == Returned(0) \in heuristic_function(heuristic, problem)
C27_EmptyResultReturns ==
  [][(AtDecide /\ HeuristicEmpty) =>
       /\ pc' = "return"
       /\ ret' = is_satisfied(problem)
       /\ problem' = problem
       /\ decision_level' = decision_level
       /\ result' # "error"]_vars

(* C28: in every state in which the engine calls the heuristic, a literal  *)
(* the heuristic returns has an unassigned variable and occurs, in either  *)
(* polarity, in a clause not marked satisfied; for moms and rmoms that     *)
(* clause has the least number of unassigned literals among the clauses    *)
(* not marked satisfied.                                                   *)
HeuristicCalled ==
  /\ ~problem.err
  /\ NoUnitClause(problem)
  /\ \/ engine = "dpll" /\ pc = "bcp"
     \/ engine = "cdcl" /\ pc = "propagate" /\ ~is_satisfied(problem)
Unsatisfied(p) == {i \in DOMAIN p.clauses : ~p.satisfaction_map[i]}
Holds(p, i, lit) == \E j \in DOMAIN p.clauses[i] : Abs(p.clauses[i][j]) = Abs(lit)
Smallest(p, i) ==
  \A k \in Unsatisfied(p) :
    CountUnassigned(p.assignments, p.clauses[i]) <= CountUnassigned(p.assignments, p.clauses[k])
C28_ReturnedLiteralOpen ==
  HeuristicCalled =>
    \A r \in heuristic_function(heuristic, problem) :
      (~r.raised /\ r.value # 0) =>
        /\ LitUnassigned(problem.assignments, r.value)
        /\ \E i \in Unsatisfied(problem) :
             /\ Holds(problem, i, r.value)
             /\ heuristic \in {"moms", "rmoms"} => Smallest(problem, i)

(* C29: dlcs returns an unassigned variable x that maximizes CP(x) + CN(x),*)
(* the numbers of positive and negative occurrences of x in the clauses    *)
(* not marked satisfied; the sign is positive iff CP(x) >= CN(x); and of   *)
(* the variables with the maximal sum it is the one met first when the     *)
(* clauses are read in order.                                              *)
CP(p, x) ==
  Cardinality({o \in Occurrences(p) : ~p.satisfaction_map[o[1]] /\ LitAt(p, o) = x})
CN(p, x) == CP(p, 0 - x)
DlcsCandidates(p) ==
  {x \in DOMAIN p.assignments : p.assignments[x] = 0 /\ CP(p, x) + CN(p, x) > 0}
FirstMet(p, x) ==
  FirstOf({o \in Occurrences(p) : ~p.satisfaction_map[o[1]] /\ Abs(LitAt(p, o)) = x})
DlcsAsSpecified(p, lit) ==
  LET x == Abs(lit)
  IN  /\ x \in DlcsCandidates(p)
      /\ \A y \in DlcsCandidates(p) : CP(p, y) + CN(p, y) <= CP(p, x) + CN(p, x)
      /\ (lit > 0) <=> (CP(p, x) >= CN(p, x))
      /\ \A y \in DlcsCandidates(p) \ {x} :
           CP(p, y) + CN(p, y) = CP(p, x) + CN(p, x) => Before(FirstMet(p, x), FirstMet(p, y))
C29_DlcsChoice ==
  (~problem.err /\ DlcsCandidates(problem) # {}) =>
     /\ ~dlcs(problem).raised
     /\ DlcsAsSpecified(problem, dlcs(problem).value)

(* A State with assigned variables and a satisfied clause in which two     *)
(* variables share the maximal sum and dlcs returns a negative literal.    *)
C29_Witness ==
  /\ ~problem.err /\ SomeAssigned
  /\ \E i \in DOMAIN problem.satisfaction_map : problem.satisfaction_map[i]
  /\ ~dlcs(problem).raised /\ dlcs(problem).value < 0
  /\ \E y \in DlcsCandidates(problem) \ {Abs(dlcs(problem).value)} :
       CP(problem, y) + CN(problem, y) =
         CP(problem, Abs(dlcs(problem).value)) + CN(problem, Abs(dlcs(problem).value))

MutatorStep ==
  \E lit \in KeysOfState : OpAssign(lit) \/ OpUnassign(lit) \/ OpFlip(lit)
C31_OccurrenceMapStable ==
  [][MutatorStep =>
       /\ problem'.clauses_by_literal = problem.clauses_by_literal
       /\ Len(problem'.clauses) = Len(problem.clauses)]_vars

(* C32: constructing an engine with both twl and true_twl set fails; no    *)
(* solver is created and no State variant is chosen.                       *)
BothFlags == args.twl /\ args.true_twl
C32_BothFlagsRejected == BothFlags => engine = "new" /\ problem = NoState

(* C33: a heuristic name outside the seven known names fails at            *)
(* construction: no solver exists for it, and a constructed solver holds   *)
(* the name it was given.                                                  *)
Constructed == engine \in {"dpll", "cdcl", "legacy"}
C33_UnknownHeuristicRejected ==
  /\ args.heuristic \notin Heuristics =>
       /\ ~Constructed
       /\ pc = "done" => result = "error"
  /\ Constructed => heuristic = args.heuristic
(* C34: ClausesModel accepts an input exactly when, with the trailing 0    *)
(* of every clause stripped, no clause is empty, num_clauses is the number *)
(* of clauses and num_vars the number of distinct variables.               *)
WellFormedInput(a) ==
  /\ \A i \in DOMAIN a.clauses :
       /\ Len(a.clauses[i]) >= 2
       /\ a.clauses[i][Len(a.clauses[i])] = 0
  /\ a.num_clauses = Len(a.clauses)
  /\ a.num_vars =
       Cardinality(UNION {{Abs(a.clauses[i][j]) : j \in 1..(Len(a.clauses[i]) - 1)} \ {0} :
                          i \in DOMAIN a.clauses})
C34_AcceptsExactlyWellFormed ==
  pc # "read" => (~ClausesModel(args).raised <=> WellFormedInput(args))

(* C35: a pass of pure-literal elimination assigns a variable only if it   *)
(* is unassigned and occurs with a single polarity across the clauses that *)
(* are unsatisfied at that moment, it gives the variable that polarity,    *)
(* and it leaves the value of every assigned variable as it was.           *)
UnsatisfiedNow(p) == {i \in DOMAIN p.clauses : ~ClauseTrue(p.assignments, p.clauses[i])}
PureNow(p, l) ==
  /\ \E i \in UnsatisfiedNow(p) : InSeq(p.clauses[i], l)
  /\ \A i \in UnsatisfiedNow(p) : ~InSeq(p.clauses[i], 0 - l)
C35_PleAssignsOnlyPure ==
  [][PlePass =>
       /\ \A l \in ple_affected' :
            /\ LitUnassigned(problem.assignments, l)
            /\ PureNow(problem, l)
            /\ LitTrue(problem'.assignments, l)
       /\ \A v \in DOMAIN problem.assignments :
            /\ problem.assignments[v] # 0 => problem'.assignments[v] = problem.assignments[v]
            /\ problem'.assignments[v] # problem.assignments[v] =>
                 \E l \in ple_affected' : Abs(l) = v]_vars
C35_Witness ==
  /\ engine = "legacy" /\ pc = "ple"
  /\ ple_affected # {}
  /\ \E v \in DOMAIN problem.assignments :
       problem.assignments[v] # 0 /\ v \notin {Abs(l) : l \in ple_affected}

(* C36: pure-literal elimination runs only when enabled and only before    *)
(* the recursion starts; its passes are repeated until one changes         *)
(* nothing, and that repetition ends.                                      *)
InPle == engine = "legacy" /\ pc = "ple"
RecursionStarts == engine = "legacy" /\ pc = "entry"
C36_PleBeforeRecursion ==
  /\ [][PlePass => args.use_pure_literal /\ stack = << >> /\ decision_level = 0]_vars
  /\ [][(InPle /\ ~InPle') => ple_affected' = {} /\ problem'.assignments = problem.assignments]_vars
  /\ [][(pc \notin {"solve", "ple"} \/ ~args.use_pure_literal) => pc' # "ple"]_vars
  /\ InPle ~> RecursionStarts
C36_Witness ==
  /\ RecursionStarts
  /\ args.use_pure_literal
  /\ stack = << >>
  /\ ple_affected = {}
  /\ \E v \in DOMAIN problem.assignments : problem.assignments[v] # 0
  /\ \E i \in DOMAIN problem.clauses : ~problem.satisfaction_map[i]

(* C37: every clause learned by conflict analysis follows from the         *)
(* original formula: each total assignment that satisfies all original     *)
(* clauses satisfies every learned clause.                                 *)
Follows(clause) ==
  \A a \in [VarsOf(formula) -> {1, -1}] : Satisfies(a, formula) => ClauseTrue(a, clause)
C37_LearnedClausesFollow ==
  \A k \in DOMAIN learned_clauses : Follows(learned_clauses[k])

C37_Witness ==
  /\ engine = "cdcl"
  /\ \E k \in DOMAIN learned_clauses :
       /\ Len(learned_clauses[k]) >= 1
       /\ \A i \in DOMAIN formula : Range(formula[i]) # Range(learned_clauses[k])

(* C38: CDCLSolver.solve() terminates: the loop of propagation, conflict   *)
(* analysis, backjump and decision reaches its end on every formula.       *)
C38_CdclTerminates == <>(engine = "cdcl" /\ pc = "done")

C38_Witness ==
  /\ engine = "cdcl" /\ pc = "done"
  /\ result \in {"SAT", "UNSAT"}
  /\ learned_clauses # << >>

(* C39: at the start of every iteration of the main loop of                *)
(* CDCLSolver.solve() the keys of the implication graph are exactly the    *)
(* literals assigned true, no entry has a decision level above the         *)
(* current one, and every other literal of an entry's antecedent clause    *)
(* is assigned false.                                                      *)
GraphKeys == {implication_graph[k].literal : k \in DOMAIN implication_graph}
TrueLiterals(p) == {l \in LitsOver(DOMAIN p.assignments) : l # 0 /\ LitTrue(p.assignments, l)}
GraphKeysAreTrueLiterals == GraphKeys = TrueLiterals(problem)
GraphLevelsBounded ==
  \A k \in DOMAIN implication_graph : implication_graph[k].decision_level <= decision_level
AntecedentsFalsified ==
  \A k \in DOMAIN implication_graph :
    LET e == implication_graph[k]
    IN  e.antecedent # 0 =>
          \A l \in Range(ClauseRead(problem, e.antecedent)) \ {e.literal} :
            LitFalse(problem.assignments, l)
IterationStart == engine = "cdcl" /\ pc = "propagate" /\ result = "none"
C39_GraphInvariant ==
  IterationStart =>
    /\ GraphKeysAreTrueLiterals
    /\ GraphLevelsBounded
    /\ AntecedentsFalsified

(* C40: the engines call the mutators within their preconditions: a 'new   *)
(* assignment' is issued only for a literal whose variable is unassigned,  *)
(* an 'undo assignment' or 'change assignment' only for a literal that is  *)
(* assigned true at that moment, and between engine steps the counters of  *)
(* the State agree with `assignments`.                                     *)
DecisionEntries(g, level) ==
  {g[k].literal : k \in {n \in DOMAIN g : g[n].decision_level = level /\ g[n].antecedent = 0}}
NewAssignmentRespected ==
  /\ (decision_level' = decision_level + 1 /\ DpllDecide) =>
       LitUnassigned(problem.assignments, Top'.decision_literal)
  /\ (decision_level' = decision_level + 1 /\ CdclDecide) =>
       \A l \in DecisionEntries(implication_graph', decision_level') :
         LitUnassigned(problem.assignments, l)
UndoRespected ==
  /\ DpllSecondBranch => LitTrue(problem.assignments, Top.decision_literal)
  /\ DpllBacktrack =>
       /\ LitTrue(problem.assignments, 0 - Top.decision_literal)
       /\ \A k \in DOMAIN Top.propagated_literals :
            LitTrue(problem.assignments, Top.propagated_literals[k])
  /\ CdclLearn =>
       \A k \in DOMAIN implication_graph :
         implication_graph[k].decision_level > BacktrackLevel(implication_graph, analysis) =>
           LitTrue(problem.assignments, implication_graph[k].literal)
CountersAgree ==
  (engine \in {"dpll", "cdcl"} /\ problem.kind = "plain" /\ ~problem.err) =>
    \A i \in Clauses :
      /\ problem.num_unassigned[i] = UnassignedIn(i)
      /\ problem.num_satisfying[i] = CountTrue(problem.assignments, problem.clauses[i])
C40_MutatorPreconditions ==
  /\ [][NewAssignmentRespected /\ UndoRespected]_vars
  /\ []CountersAgree

====
